---- MODULE Spec2Model ----
(***************************************************************************)
(* Model of EuclideanVector.hpp: the vector class templates                *)
(* EuclideanVector1, EuclideanRecVector2/3/4 (each derived from the next   *)
(* lower dimension) and EuclideanCmplVector2/3/4 (flat storage), together  *)
(* with the ResultPacker_N aggregates their operators return.              *)
(*                                                                         *)
(* Element values.  ElemType is modelled as an exact real of the form      *)
(* (n/d)*sqrt(r) with r squarefree, extended by the IEEE-754 specials NaN  *)
(* and +/-Inf.  Rounding is not modelled, so results that the header       *)
(* computes in float/double are the values floating point approximates.    *)
(* Integer element types are covered by the integral members of the        *)
(* domain for + - * only; truncating integer division is not modelled.     *)
(*                                                                         *)
(* A call that does not compile (an overload that can never be viable, a   *)
(* member whose body is ill-formed) yields the distinguished value         *)
(* IllFormed instead of a result.                                          *)
(***************************************************************************)
EXTENDS Integers, Sequences, FiniteSets, TLC

(***************************************************************************)
(* Bounds of the explored input space.                                     *)
(***************************************************************************)
\* input vectors have integer components with |x|+|y|+|z|+|w| <= MaxSum
MaxSum == 2

\* largest |x| + |y| + ... of an object the mutation of copies leaves behind
MaxWrite == 1

(***************************************************************************)
(* State.                                                                  *)
(*   ty    the class template the objects under test are instances of      *)
(*   a, b  two vector objects of type ty                                   *)
(*   res   the operation last evaluated and the value it returned          *)
(*   view  what the last xy()/xyz() call on a returned                     *)
(***************************************************************************)
VARIABLES ty, a, b, res, view

vars == <<ty, a, b, res, view>>

(***************************************************************************)
(* ElemType arithmetic.                                                    *)
(***************************************************************************)
Abs(i) == IF i < 0 THEN -i ELSE i

Sign(i) == IF i < 0 THEN -1 ELSE IF i > 0 THEN 1 ELSE 0

RECURSIVE GCD(_, _)
GCD(m, n) == IF n = 0 THEN m ELSE GCD(n, m % n)

\* the largest s with s*s dividing n, searched from s upwards
RECURSIVE SquarePart(_, _)
SquarePart(n, s) ==
    IF s * s > n THEN 1
    ELSE IF n % (s * s) = 0 THEN s * SquarePart(n \div (s * s), s)
    ELSE SquarePart(n, s + 1)

\* the canonical representation of (n/d)*sqrt(r), d > 0, r >= 1
Canon(n, d, r) ==
    IF n = 0 THEN [k |-> "fin", n |-> 0, d |-> 1, r |-> 1]
    ELSE LET s == SquarePart(r, 2)
             m == n * s
             g == GCD(Abs(m), d)
         IN  [k |-> "fin", n |-> m \div g, d |-> d \div g, r |-> r \div (s * s)]

Num(i) == [k |-> "fin", n |-> i, d |-> 1, r |-> 1]

NaN == [k |-> "nan", n |-> 0, d |-> 1, r |-> 1]

Inf(s) == [k |-> "inf", n |-> s, d |-> 1, r |-> 1]

\* a real outside the modelled domain (a sum of two different radicals)
Irr == [k |-> "irr", n |-> 0, d |-> 1, r |-> 1]

\* what a call that does not compile yields
IllFormed == [k |-> "ill-formed", n |-> 0, d |-> 1, r |-> 1]

IsFin(p) == p.k = "fin"

IsZero(p) == p.k = "fin" /\ p.n = 0

RNeg(p) ==
    IF p.k \in {"fin", "inf"} THEN [p EXCEPT !.n = -p.n] ELSE p

RAdd(p, q) ==
    CASE p.k = "ill-formed" \/ q.k = "ill-formed" -> IllFormed
      [] OTHER ->
    CASE p.k = "nan" \/ q.k = "nan" -> NaN
      [] p.k = "irr" \/ q.k = "irr" -> Irr
      [] p.k = "inf" /\ q.k = "inf" -> IF p.n = q.n THEN p ELSE NaN
      [] p.k = "inf" -> p
      [] q.k = "inf" -> q
      [] p.n = 0 -> q
      [] q.n = 0 -> p
      [] p.r = q.r -> Canon(p.n * q.d + q.n * p.d, p.d * q.d, p.r)
      [] OTHER -> Irr

RSub(p, q) == RAdd(p, RNeg(q))

RMul(p, q) ==
    CASE p.k = "ill-formed" \/ q.k = "ill-formed" -> IllFormed
      [] OTHER ->
    CASE p.k = "nan" \/ q.k = "nan" -> NaN
      [] p.k = "irr" \/ q.k = "irr" -> Irr
      [] p.k = "inf" \/ q.k = "inf" ->
            IF IsZero(p) \/ IsZero(q) THEN NaN ELSE Inf(Sign(p.n) * Sign(q.n))
      [] OTHER ->
            LET g == GCD(p.r, q.r)
            IN  Canon(p.n * q.n * g, p.d * q.d, (p.r \div g) * (q.r \div g))

\* 1/q for finite q # 0:  d/(n*sqrt(r)) = d*sqrt(r)/(n*r)
RInv(q) == Canon(Sign(q.n) * q.d, Abs(q.n) * q.r, q.r)

RDiv(p, q) ==
    CASE p.k = "ill-formed" \/ q.k = "ill-formed" -> IllFormed
      [] OTHER ->
    CASE p.k = "nan" \/ q.k = "nan" -> NaN
      [] p.k = "irr" \/ q.k = "irr" -> Irr
      [] q.k = "inf" -> IF p.k = "inf" THEN NaN ELSE Num(0)
      [] IsZero(q) -> IF IsZero(p) THEN NaN ELSE Inf(Sign(p.n))
      [] p.k = "inf" -> Inf(p.n * Sign(q.n))
      [] OTHER -> RMul(p, RInv(q))

\* std::sqrt:  sqrt(n/d) = sqrt(n*d)/d
RSqrt(p) ==
    CASE p.k = "ill-formed" -> IllFormed
      [] p.k = "nan" -> NaN
      [] p.k = "irr" -> Irr
      [] p.k = "inf" -> IF p.n > 0 THEN p ELSE NaN
      [] p.n < 0 -> NaN
      [] p.n = 0 -> p
      [] p.r # 1 -> Irr
      [] OTHER -> Canon(1, p.d, p.n * p.d)

(***************************************************************************)
(* The vector types and their storage.                                     *)
(* An object is a record of its data members x_, y_, z_, w_; in the Rec    *)
(* family x_ lives in the EuclideanVector1 base (MX), y_ in the            *)
(* EuclideanRecVector2 base (MXY) and z_ in the EuclideanRecVector3 base    *)
(* (MXYZ).  A ResultPacker_N is a record of its members x, y, z, w.        *)
(***************************************************************************)
V1 == "EuclideanVector1"

Rec2 == "EuclideanRecVector2"

Rec3 == "EuclideanRecVector3"

Rec4 == "EuclideanRecVector4"

Cmpl2 == "EuclideanCmplVector2"

Cmpl3 == "EuclideanCmplVector3"

Cmpl4 == "EuclideanCmplVector4"

VecTypes == {V1, Rec2, Rec3, Rec4, Cmpl2, Cmpl3, Cmpl4}

EucD(t) ==
    CASE t = V1 -> 1
      [] t = Rec2 -> 2
      [] t = Rec3 -> 3
      [] t = Rec4 -> 4
      [] t = Cmpl2 -> 2
      [] t = Cmpl3 -> 3
      [] t = Cmpl4 -> 4

\* the direct base class of t (the Cmpl classes are final and have none)
BaseOf(t) ==
    CASE t = Rec2 -> V1
      [] t = Rec3 -> Rec2
      [] t = Rec4 -> Rec3
      [] OTHER -> "none"

\* an object of type t is also an object of type u
RECURSIVE IsA(_, _)
IsA(t, u) == t = u \/ (BaseOf(t) # "none" /\ IsA(BaseOf(t), u))

\* the default constructors value-initialise every member
DefaultCtor(t) ==
    CASE t = V1 -> [x_ |-> Num(0)]
      [] t = Rec2 -> [x_ |-> Num(0), y_ |-> Num(0)]
      [] t = Rec3 -> [x_ |-> Num(0), y_ |-> Num(0), z_ |-> Num(0)]
      [] t = Rec4 -> [x_ |-> Num(0), y_ |-> Num(0), z_ |-> Num(0), w_ |-> Num(0)]
      [] t = Cmpl2 -> [x_ |-> Num(0), y_ |-> Num(0)]
      [] t = Cmpl3 -> [x_ |-> Num(0), y_ |-> Num(0), z_ |-> Num(0)]
      [] t = Cmpl4 -> [x_ |-> Num(0), y_ |-> Num(0), z_ |-> Num(0), w_ |-> Num(0)]

\* faulty variant: a set() that hands every argument to the next member
set_rotated(t, self, v) ==
    LET r == [i \in 1..EucD(t) |-> v[(i % EucD(t)) + 1]]
    IN  [f \in DOMAIN self |->
            CASE f = "x_" -> r[1] [] f = "y_" -> r[2] [] f = "z_" -> r[3] [] f = "w_" -> r[4]]

\* set(x, y, ...): v is the tuple of arguments, taken as values (none of them
\* refers to a member of the object itself)
\* bodies: V1 989, Rec2 1585-1586, Rec3 2277-2279, Rec4 3707-3710,
\* Cmpl2 4300-4301, Cmpl3 4989-4991, Cmpl4 6419-6422
set(t, self, v) ==
    CASE t = V1 -> [self EXCEPT !.x_ = v[1]]
      [] t = Rec2 -> [self EXCEPT !.x_ = v[1], !.y_ = v[2]]
      [] t = Rec3 -> [self EXCEPT !.x_ = v[1], !.y_ = v[2], !.z_ = v[3]]
      [] t = Rec4 -> [self EXCEPT !.x_ = v[1], !.y_ = v[2], !.z_ = v[3], !.w_ = v[4]]
      [] t = Cmpl2 -> [self EXCEPT !.x_ = v[1], !.y_ = v[2]]
      [] t = Cmpl3 -> [self EXCEPT !.x_ = v[1], !.y_ = v[2], !.z_ = v[3]]
      [] t = Cmpl4 -> [self EXCEPT !.x_ = v[1], !.y_ = v[2], !.z_ = v[3], !.w_ = v[4]]

\* the element accessors x(), y(), z(), w()
x(t, self) == self.x_

y(t, self) == self.y_

z(t, self) == self.z_

w(t, self) == self.w_

\* get_pack(): the components as a ResultPacker (EuclideanVector1 has none)
get_pack(t, self) ==
    CASE t = Rec2 -> [x |-> self.x_, y |-> self.y_]
      [] t = Rec3 -> [x |-> self.x_, y |-> self.y_, z |-> self.z_]
      [] t = Rec4 -> [x |-> self.x_, y |-> self.y_, z |-> self.z_, w |-> self.w_]
      [] t = Cmpl2 -> [x |-> self.x_, y |-> self.y_]
      [] t = Cmpl3 -> [x |-> self.x_, y |-> self.y_, z |-> self.z_]
      [] t = Cmpl4 -> [x |-> self.x_, y |-> self.y_, z |-> self.z_, w |-> self.w_]

\* an rvalue ResultPacker holding the components of self
Packer(t, self) ==
    IF t = V1 THEN [x |-> x(t, self)] ELSE get_pack(t, self)

\* the components of a vector in order, read through the accessors
Elems(t, self) ==
    CASE EucD(t) = 1 -> <<x(t, self)>>
      [] EucD(t) = 2 -> <<x(t, self), y(t, self)>>
      [] EucD(t) = 3 -> <<x(t, self), y(t, self), z(t, self)>>
      [] EucD(t) = 4 -> <<x(t, self), y(t, self), z(t, self), w(t, self)>>

\* the members of a ResultPacker_n in order
PackElems(n, pack) ==
    CASE n = 1 -> <<pack.x>>
      [] n = 2 -> <<pack.x, pack.y>>
      [] n = 3 -> <<pack.x, pack.y, pack.z>>
      [] n = 4 -> <<pack.x, pack.y, pack.z, pack.w>>

\* the ResultPacker whose members are the entries of s
PackOfSeq(s) ==
    CASE Len(s) = 1 -> [x |-> s[1]]
      [] Len(s) = 2 -> [x |-> s[1], y |-> s[2]]
      [] Len(s) = 3 -> [x |-> s[1], y |-> s[2], z |-> s[3]]
      [] Len(s) = 4 -> [x |-> s[1], y |-> s[2], z |-> s[3], w |-> s[4]]

(***************************************************************************)
(* operator+ : vector + vector / vector + ResultPacker  ->  ResultPacker   *)
(***************************************************************************)
\* faulty variant: the last component is copied from the left operand
operator_plus_keeps_last(t, self, vector) ==
    LET l == Elems(t, self)
        r == Elems(t, vector)
    IN  PackOfSeq([i \in 1..EucD(t) |->
                     IF i = EucD(t) THEN l[i] ELSE RAdd(l[i], r[i])])

\* operator+(const Vec<T>& vector) const
\* bodies: V1 596, Rec2 1160, Rec3 1754, Rec4 2476, Cmpl2 3875, Cmpl3 4468,
\* Cmpl4 5191
operator_plus(t, self, vector) ==
    CASE t = V1 -> [x |-> RAdd(self.x_, vector.x_)]
      [] t = Rec2 -> [x |-> RAdd(self.x_, vector.x_), y |-> RAdd(self.y_, vector.y_)]
      [] t = Rec3 -> [x |-> RAdd(self.x_, vector.x_), y |-> RAdd(self.y_, vector.y_),
                      z |-> RAdd(self.z_, vector.z_)]
      [] t = Rec4 -> [x |-> RAdd(self.x_, vector.x_), y |-> RAdd(self.y_, vector.y_),
                      z |-> RAdd(self.z_, vector.z_), w |-> RAdd(self.w_, vector.w_)]
      [] t = Cmpl2 -> [x |-> RAdd(self.x_, vector.x_), y |-> RAdd(self.y_, vector.y_)]
      [] t = Cmpl3 -> [x |-> RAdd(self.x_, vector.x_), y |-> RAdd(self.y_, vector.y_),
                       z |-> RAdd(self.z_, vector.z_)]
      [] t = Cmpl4 -> [x |-> RAdd(self.x_, vector.x_), y |-> RAdd(self.y_, vector.y_),
                       z |-> RAdd(self.z_, vector.z_), w |-> RAdd(self.w_, vector.w_)]

\* operator+(Vec<T>&& vector) const; moving an element leaves it unchanged
\* bodies: V1 603, Rec2 1167, Rec3 1761, Rec4 2483, Cmpl2 3882, Cmpl3 4475,
\* Cmpl4 5198
operator_plus_rvalue(t, self, vector) ==
    CASE t = V1 -> [x |-> RAdd(self.x_, vector.x_)]
      [] t = Rec2 -> [x |-> RAdd(self.x_, vector.x_), y |-> RAdd(self.y_, vector.y_)]
      [] t = Rec3 -> [x |-> RAdd(self.x_, vector.x_), y |-> RAdd(self.y_, vector.y_),
                      z |-> RAdd(self.z_, vector.z_)]
      [] t = Rec4 -> [x |-> RAdd(self.x_, vector.x_), y |-> RAdd(self.y_, vector.y_),
                      z |-> RAdd(self.z_, vector.z_), w |-> RAdd(self.w_, vector.w_)]
      [] t = Cmpl2 -> [x |-> RAdd(self.x_, vector.x_), y |-> RAdd(self.y_, vector.y_)]
      [] t = Cmpl3 -> [x |-> RAdd(self.x_, vector.x_), y |-> RAdd(self.y_, vector.y_),
                       z |-> RAdd(self.z_, vector.z_)]
      [] t = Cmpl4 -> [x |-> RAdd(self.x_, vector.x_), y |-> RAdd(self.y_, vector.y_),
                       z |-> RAdd(self.z_, vector.z_), w |-> RAdd(self.w_, vector.w_)]

\* operator+(RRefPacker<T> pack) const
\* bodies: V1 610, Rec2 1174, Rec3 1768, Rec4 2490, Cmpl2 3889, Cmpl3 4482,
\* Cmpl4 5205
operator_plus_pack(t, self, pack) ==
    CASE t = V1 -> [x |-> RAdd(self.x_, pack.x)]
      [] t = Rec2 -> [x |-> RAdd(self.x_, pack.x), y |-> RAdd(self.y_, pack.y)]
      [] t = Rec3 -> [x |-> RAdd(self.x_, pack.x), y |-> RAdd(self.y_, pack.y),
                      z |-> RAdd(self.z_, pack.z)]
      [] t = Rec4 -> [x |-> RAdd(self.x_, pack.x), y |-> RAdd(self.y_, pack.y),
                      z |-> RAdd(self.z_, pack.z), w |-> RAdd(self.w_, pack.w)]
      [] t = Cmpl2 -> [x |-> RAdd(self.x_, pack.x), y |-> RAdd(self.y_, pack.y)]
      [] t = Cmpl3 -> [x |-> RAdd(self.x_, pack.x), y |-> RAdd(self.y_, pack.y),
                       z |-> RAdd(self.z_, pack.z)]
      [] t = Cmpl4 -> [x |-> RAdd(self.x_, pack.x), y |-> RAdd(self.y_, pack.y),
                       z |-> RAdd(self.z_, pack.z), w |-> RAdd(self.w_, pack.w)]

(***************************************************************************)
(* dot                                                                     *)
(***************************************************************************)
\* the ResultPacker template a vector type's Packer / RRefPacker names
PackerType(t) ==
    CASE EucD(t) = 1 -> "ResultPacker_1"
      [] EucD(t) = 2 -> "ResultPacker_2"
      [] EucD(t) = 3 -> "ResultPacker_3"
      [] EucD(t) = 4 -> "ResultPacker_4"

\* Overload resolution of t::dot(arg).  Every dot overload is a template
\* whose trailing return type must be well-formed for the overload to be
\* viable; in the Rec family that return type calls the base class's dot
\* with the same argument (MX::dot, MXY::dot, MXYZ::dot).
RECURSIVE dot_accepts(_, _)
dot_accepts(t, arg) ==
    CASE t = V1 -> IsA(arg, V1) \/ arg = "ResultPacker_1"
      [] t = Rec2 -> \/ IsA(arg, Rec2) /\ dot_accepts(V1, arg)
                     \/ arg = "ResultPacker_2" /\ dot_accepts(V1, arg)
      [] t = Rec3 -> \/ IsA(arg, Rec3) /\ dot_accepts(Rec2, arg)
                     \/ arg = "ResultPacker_3" /\ dot_accepts(Rec2, arg)
      [] t = Rec4 -> \/ IsA(arg, Rec4) /\ dot_accepts(Rec3, arg)
                     \/ arg = "ResultPacker_4" /\ dot_accepts(Rec3, arg)
      [] t = Cmpl2 -> arg = Cmpl2 \/ arg = "ResultPacker_2"
      [] t = Cmpl3 -> arg = Cmpl3 \/ arg = "ResultPacker_3"
      [] t = Cmpl4 -> arg = Cmpl4 \/ arg = "ResultPacker_4"

\* dot(const Vec<T>& vector) const
\* bodies: V1 1003, Rec2 1600, Rec3 2293, Rec4 3724, Cmpl2 4315, Cmpl3 5005,
\* Cmpl4 6436
dot(t, self, vector) ==
    IF ~dot_accepts(t, t) THEN IllFormed
    ELSE
    CASE t = V1 -> RMul(self.x_, vector.x_)
      [] t = Rec2 -> RAdd(RMul(self.x_, vector.x_), RMul(self.y_, vector.y_))
      [] t = Rec3 -> RAdd(RAdd(RMul(self.x_, vector.x_), RMul(self.y_, vector.y_)),
                          RMul(self.z_, vector.z_))
      [] t = Rec4 -> RAdd(RAdd(RAdd(RMul(self.x_, vector.x_), RMul(self.y_, vector.y_)),
                               RMul(self.z_, vector.z_)),
                          RMul(self.w_, vector.w_))
      [] t = Cmpl2 -> RAdd(RMul(self.x_, vector.x_), RMul(self.y_, vector.y_))
      [] t = Cmpl3 -> RAdd(RAdd(RMul(self.x_, vector.x_), RMul(self.y_, vector.y_)),
                           RMul(self.z_, vector.z_))
      [] t = Cmpl4 -> RAdd(RAdd(RAdd(RMul(self.x_, vector.x_), RMul(self.y_, vector.y_)),
                                RMul(self.z_, vector.z_)),
                           RMul(self.w_, vector.w_))

\* dot(Vec<T>&& vector) const
\* bodies: V1 1009, Rec2 1606, Rec3 2299, Rec4 3730, Cmpl2 4321, Cmpl3 5011,
\* Cmpl4 6442
dot_rvalue(t, self, vector) ==
    IF ~dot_accepts(t, t) THEN IllFormed
    ELSE
    CASE t = V1 -> RMul(self.x_, vector.x_)
      [] t = Rec2 -> RAdd(RMul(self.x_, vector.x_), RMul(self.y_, vector.y_))
      [] t = Rec3 -> RAdd(RAdd(RMul(self.x_, vector.x_), RMul(self.y_, vector.y_)),
                          RMul(self.z_, vector.z_))
      [] t = Rec4 -> RAdd(RAdd(RAdd(RMul(self.x_, vector.x_), RMul(self.y_, vector.y_)),
                               RMul(self.z_, vector.z_)),
                          RMul(self.w_, vector.w_))
      [] t = Cmpl2 -> RAdd(RMul(self.x_, vector.x_), RMul(self.y_, vector.y_))
      [] t = Cmpl3 -> RAdd(RAdd(RMul(self.x_, vector.x_), RMul(self.y_, vector.y_)),
                           RMul(self.z_, vector.z_))
      [] t = Cmpl4 -> RAdd(RAdd(RAdd(RMul(self.x_, vector.x_), RMul(self.y_, vector.y_)),
                                RMul(self.z_, vector.z_)),
                           RMul(self.w_, vector.w_))

\* dot(RRefPacker<T> pack) const
\* bodies: V1 1015, Rec2 1612, Rec3 2305, Rec4 3736, Cmpl2 4327, Cmpl3 5017,
\* Cmpl4 6448
dot_pack(t, self, pack) ==
    IF ~dot_accepts(t, PackerType(t)) THEN IllFormed
    ELSE
    CASE t = V1 -> RMul(self.x_, pack.x)
      [] t = Rec2 -> RAdd(RMul(self.x_, pack.x), RMul(self.y_, pack.y))
      [] t = Rec3 -> RAdd(RAdd(RMul(self.x_, pack.x), RMul(self.y_, pack.y)),
                          RMul(self.z_, pack.z))
      [] t = Rec4 -> RAdd(RAdd(RAdd(RMul(self.x_, pack.x), RMul(self.y_, pack.y)),
                               RMul(self.z_, pack.z)),
                          RMul(self.w_, pack.w))
      [] t = Cmpl2 -> RAdd(RMul(self.x_, pack.x), RMul(self.y_, pack.y))
      [] t = Cmpl3 -> RAdd(RAdd(RMul(self.x_, pack.x), RMul(self.y_, pack.y)),
                           RMul(self.z_, pack.z))
      [] t = Cmpl4 -> RAdd(RAdd(RAdd(RMul(self.x_, pack.x), RMul(self.y_, pack.y)),
                                RMul(self.z_, pack.z)),
                           RMul(self.w_, pack.w))

(***************************************************************************)
(* dot between operands of differing ElemType.                             *)
(* dot, dot_rvalue and dot_pack above take both operands with one floating *)
(* ElemType, for which every conversion below is the identity.  Here the   *)
(* object has ElemType E and the argument any arithmetic element type; a   *)
(* product of two members has their common arithmetic type.                *)
(***************************************************************************)
Arithmetic == {"int", "double"}

\* the functional cast ElemType(v) of an arithmetic value: to an integral
\* type the fraction is discarded, toward zero
Convert(E, p) ==
    CASE E = "double" -> p
      [] E = "int" /\ p.k = "fin" /\ p.r = 1 -> Num(Sign(p.n) * (Abs(p.n) \div p.d))
      [] OTHER -> Irr

\* dot(const Vec<T>& vector) const of a Vec<E>
\* bodies: V1 1003, Rec2 1600, Rec3 2293, Rec4 3724 (the products summed as
\* they are), Cmpl2 4315, Cmpl3 5005, Cmpl4 6436 (each product cast to
\* ElemType before the sum)
dot_elem(E, t, self, vector) ==
    IF ~dot_accepts(t, t) THEN IllFormed
    ELSE
    CASE t = V1 -> RMul(self.x_, vector.x_)
      [] t = Rec2 -> RAdd(RMul(self.x_, vector.x_), RMul(self.y_, vector.y_))
      [] t = Rec3 -> RAdd(RAdd(RMul(self.x_, vector.x_), RMul(self.y_, vector.y_)),
                          RMul(self.z_, vector.z_))
      [] t = Rec4 -> RAdd(RAdd(RAdd(RMul(self.x_, vector.x_), RMul(self.y_, vector.y_)),
                               RMul(self.z_, vector.z_)),
                          RMul(self.w_, vector.w_))
      [] t = Cmpl2 -> RAdd(Convert(E, RMul(self.x_, vector.x_)),
                           Convert(E, RMul(self.y_, vector.y_)))
      [] t = Cmpl3 -> RAdd(RAdd(Convert(E, RMul(self.x_, vector.x_)),
                                Convert(E, RMul(self.y_, vector.y_))),
                           Convert(E, RMul(self.z_, vector.z_)))
      [] t = Cmpl4 -> RAdd(RAdd(RAdd(Convert(E, RMul(self.x_, vector.x_)),
                                     Convert(E, RMul(self.y_, vector.y_))),
                                Convert(E, RMul(self.z_, vector.z_))),
                           Convert(E, RMul(self.w_, vector.w_)))

(***************************************************************************)
(* eucnorm_squared, eucnorm, normalize                                     *)
(***************************************************************************)
\* eucnorm_squared() const; its return type is that of dot(lvalue vector).
\* bodies: V1 1029, Rec2 1626, Rec3 2319, Rec4 3750, Cmpl2 4341, Cmpl3 5031,
\* Cmpl4 6462.  The body of EuclideanCmplVector3 multiplies by vector.x_,
\* vector.y_, vector.z_, but the function has no parameter: there `vector`
\* names the enclosing namespace, so the member cannot be instantiated.
eucnorm_squared(t, self) ==
    IF ~dot_accepts(t, t) THEN IllFormed
    ELSE
    CASE t = V1 -> RMul(self.x_, self.x_)
      [] t = Rec2 -> RAdd(RMul(self.x_, self.x_), RMul(self.y_, self.y_))
      [] t = Rec3 -> RAdd(RAdd(RMul(self.x_, self.x_), RMul(self.y_, self.y_)),
                          RMul(self.z_, self.z_))
      [] t = Rec4 -> RAdd(RAdd(RAdd(RMul(self.x_, self.x_), RMul(self.y_, self.y_)),
                               RMul(self.z_, self.z_)),
                          RMul(self.w_, self.w_))
      [] t = Cmpl2 -> RAdd(RMul(self.x_, self.x_), RMul(self.y_, self.y_))
      [] t = Cmpl3 -> IllFormed
      [] t = Cmpl4 -> RAdd(RAdd(RAdd(RMul(self.x_, self.x_), RMul(self.y_, self.y_)),
                                RMul(self.z_, self.z_)),
                           RMul(self.w_, self.w_))

\* faulty variant: the one-dimensional norm computed like the others, as
\* the square root of the sum of squares
eucnorm_by_sqrt(t, self) ==
    LET e == Elems(t, self)
        SumSq[i \in 0..Len(e)] ==
            IF i = 0 THEN Num(0) ELSE RAdd(SumSq[i - 1], RMul(e[i], e[i]))
    IN  RSqrt(SumSq[Len(e)])

\* eucnorm() const; its return type is that of sqrt(eucnorm_squared<T>()).
\* bodies: V1 1043, Rec2 1640, Rec3 2333, Rec4 3764, Cmpl2 4355, Cmpl3 5045,
\* Cmpl4 6476.  EuclideanVector1 returns x_ itself.  EuclideanCmplVector3
\* has the same ill-formed body as its eucnorm_squared.
eucnorm(t, self) ==
    IF ~dot_accepts(t, t) THEN IllFormed
    ELSE
    CASE t = V1 -> self.x_
      [] t = Rec2 -> RSqrt(RAdd(RMul(self.x_, self.x_), RMul(self.y_, self.y_)))
      [] t = Rec3 -> RSqrt(RAdd(RAdd(RMul(self.x_, self.x_), RMul(self.y_, self.y_)),
                                RMul(self.z_, self.z_)))
      [] t = Rec4 -> RSqrt(RAdd(RAdd(RAdd(RMul(self.x_, self.x_), RMul(self.y_, self.y_)),
                                     RMul(self.z_, self.z_)),
                                RMul(self.w_, self.w_)))
      [] t = Cmpl2 -> RSqrt(RAdd(RMul(self.x_, self.x_), RMul(self.y_, self.y_)))
      [] t = Cmpl3 -> IllFormed
      [] t = Cmpl4 -> RSqrt(RAdd(RAdd(RAdd(RMul(self.x_, self.x_), RMul(self.y_, self.y_)),
                                      RMul(self.z_, self.z_)),
                                 RMul(self.w_, self.w_)))

\* faulty variant: a normalize() that hands back the members as they are
\* when the norm is zero
normalize_checked(t, self) ==
    LET norm == eucnorm(t, self)
    IN  IF norm = IllFormed THEN IllFormed
        ELSE IF IsZero(norm) THEN Packer(t, self)
        ELSE PackOfSeq([i \in 1..EucD(t) |-> RDiv(Elems(t, self)[i], norm)])

\* normalize() const: every component divided by eucnorm<T>().  (With an
\* integral T the brace-initialised Packer<T> would narrow the quotient by
\* the floating norm; that instantiation is outside the real-valued model.)
\* bodies: V1 1055-1056, Rec2 1652-1653, Rec3 2345-2346, Rec4 3776-3777,
\* Cmpl2 4367-4368, Cmpl3 5057-5058, Cmpl4 6488-6489
normalize(t, self) ==
    LET norm == eucnorm(t, self)
    IN  IF norm = IllFormed THEN IllFormed
        ELSE
        CASE t = V1 -> [x |-> RDiv(self.x_, norm)]
          [] t = Rec2 -> [x |-> RDiv(self.x_, norm), y |-> RDiv(self.y_, norm)]
          [] t = Rec3 -> [x |-> RDiv(self.x_, norm), y |-> RDiv(self.y_, norm),
                          z |-> RDiv(self.z_, norm)]
          [] t = Rec4 -> [x |-> RDiv(self.x_, norm), y |-> RDiv(self.y_, norm),
                          z |-> RDiv(self.z_, norm), w |-> RDiv(self.w_, norm)]
          [] t = Cmpl2 -> [x |-> RDiv(self.x_, norm), y |-> RDiv(self.y_, norm)]
          [] t = Cmpl3 -> [x |-> RDiv(self.x_, norm), y |-> RDiv(self.y_, norm),
                           z |-> RDiv(self.z_, norm)]
          [] t = Cmpl4 -> [x |-> RDiv(self.x_, norm), y |-> RDiv(self.y_, norm),
                           z |-> RDiv(self.z_, norm), w |-> RDiv(self.w_, norm)]

(***************************************************************************)
(* The unary operators, dimension() and the operand of an rvalue overload  *)
(***************************************************************************)
\* faulty variant: a unary minus that returns the components as they are
operator_neg_identity(t, self) == PackOfSeq(Elems(t, self))

\* operator-() const: { x_ * -1, y_ * -1, ... }
\* bodies: V1 807, Rec2 1371, Rec3 1965, Rec4 2687, Cmpl2 4086, Cmpl3 4679,
\* Cmpl4 5402
operator_neg(t, self) ==
    CASE t = V1 -> [x |-> RMul(self.x_, Num(-1))]
      [] t = Rec2 -> [x |-> RMul(self.x_, Num(-1)), y |-> RMul(self.y_, Num(-1))]
      [] t = Rec3 -> [x |-> RMul(self.x_, Num(-1)),
                      y |-> RMul(self.y_, Num(-1)),
                      z |-> RMul(self.z_, Num(-1))]
      [] t = Rec4 -> [x |-> RMul(self.x_, Num(-1)),
                      y |-> RMul(self.y_, Num(-1)),
                      z |-> RMul(self.z_, Num(-1)),
                      w |-> RMul(self.w_, Num(-1))]
      [] t = Cmpl2 -> [x |-> RMul(self.x_, Num(-1)), y |-> RMul(self.y_, Num(-1))]
      [] t = Cmpl3 -> [x |-> RMul(self.x_, Num(-1)),
                       y |-> RMul(self.y_, Num(-1)),
                       z |-> RMul(self.z_, Num(-1))]
      [] t = Cmpl4 -> [x |-> RMul(self.x_, Num(-1)),
                       y |-> RMul(self.y_, Num(-1)),
                       z |-> RMul(self.z_, Num(-1)),
                       w |-> RMul(self.w_, Num(-1))]

\* operator+() and operator+() const: return *this, a reference to the
\* object named self
\* bodies: V1 797-802, Rec2 1361-1366, Rec3 1955-1960, Rec4 2677-2682,
\* Cmpl2 4076-4081, Cmpl3 4669-4674, Cmpl4 5392-5397
operator_plus_unary(t, self) == [type |-> t, ref |-> self]

\* constexpr size_t dimension() { return EucD; }
\* V1 956, Rec2 1539, and the same member of the other classes
dimension(t) == EucD(t)

\* faulty variant: the operand of an rvalue overload left value-initialised
MovedFromCleared(t, right) == DefaultCtor(t)

\* The vector an overload taking Vec<T>&& has read through
\* std::move(right.x_), std::move(right.y_), ... (1165, 1200, 1263, 1298, 1333,
\* 1604 and the same overloads of the other classes).  ElemType is an
\* arithmetic type: an arithmetic object that is moved from is copied.
MovedFrom(t, right) == right

(***************************************************************************)
(* Vec(RRefPacker<T> pack): the constructor from a ResultPacker            *)
(***************************************************************************)
\* V1 580-582, Rec2 1142-1145, Rec3 1736-1739, Rec4 2458-2461,
\* Cmpl2 3857-3860, Cmpl4 5169-5174 initialise every member from the pack's
\* member of the same letter.  Cmpl3 4448-4452 names pack.x_, pack.y_ and
\* pack.z_; ResultPacker_3 has the members x, y and z, so the instantiation
\* of the constructor does not compile.
ctor_pack(t, pack) ==
    CASE t = V1 -> [x_ |-> pack.x]
      [] t = Rec2 -> [x_ |-> pack.x, y_ |-> pack.y]
      [] t = Rec3 -> [x_ |-> pack.x, y_ |-> pack.y, z_ |-> pack.z]
      [] t = Rec4 -> [x_ |-> pack.x, y_ |-> pack.y, z_ |-> pack.z, w_ |-> pack.w]
      [] t = Cmpl2 -> [x_ |-> pack.x, y_ |-> pack.y]
      [] t = Cmpl3 -> IF {"x_", "y_", "z_"} \subseteq DOMAIN pack
                      THEN [x_ |-> pack.x_, y_ |-> pack.y_, z_ |-> pack.z_]
                      ELSE IllFormed
      [] t = Cmpl4 -> [x_ |-> pack.x, y_ |-> pack.y, z_ |-> pack.z, w_ |-> pack.w]

(***************************************************************************)
(* operator=(RRefPacker<T> pack) &                                         *)
(***************************************************************************)
\* bodies: V1 829, Rec2 1395-1396, Rec3 1991-1993, Rec4 2715-2718,
\* Cmpl2 4110-4111, Cmpl3 4705-4707, Cmpl4 5430-5433
operator_assign_pack(t, self, pack) ==
    CASE t = V1 -> [self EXCEPT !.x_ = pack.x]
      [] t = Rec2 -> [self EXCEPT !.x_ = pack.x, !.y_ = pack.y]
      [] t = Rec3 -> [self EXCEPT !.x_ = pack.x, !.y_ = pack.y, !.z_ = pack.z]
      [] t = Rec4 -> [self EXCEPT !.x_ = pack.x, !.y_ = pack.y, !.z_ = pack.z,
                                  !.w_ = pack.w]
      [] t = Cmpl2 -> [self EXCEPT !.x_ = pack.x, !.y_ = pack.y]
      [] t = Cmpl3 -> [self EXCEPT !.x_ = pack.x, !.y_ = pack.y, !.z_ = pack.z]
      [] t = Cmpl4 -> [self EXCEPT !.x_ = pack.x, !.y_ = pack.y, !.z_ = pack.z,
                                   !.w_ = pack.w]

(***************************************************************************)
(* operator-, operator*, operator/ :  vector - vector, vector * scalar,    *)
(* vector / scalar  ->  ResultPacker                                       *)
(***************************************************************************)
\* operator-(const Vec<T>& vector) const
\* bodies: V1 631, Rec2 1195, Rec3 1789, Rec4 2511, Cmpl2 3910, Cmpl3 4503,
\* Cmpl4 5226
operator_minus(t, self, vector) ==
    CASE t = V1 -> [x |-> RSub(self.x_, vector.x_)]
      [] t = Rec2 -> [x |-> RSub(self.x_, vector.x_),
                      y |-> RSub(self.y_, vector.y_)]
      [] t = Rec3 -> [x |-> RSub(self.x_, vector.x_),
                      y |-> RSub(self.y_, vector.y_),
                      z |-> RSub(self.z_, vector.z_)]
      [] t = Rec4 -> [x |-> RSub(self.x_, vector.x_),
                      y |-> RSub(self.y_, vector.y_),
                      z |-> RSub(self.z_, vector.z_),
                      w |-> RSub(self.w_, vector.w_)]
      [] t = Cmpl2 -> [x |-> RSub(self.x_, vector.x_),
                       y |-> RSub(self.y_, vector.y_)]
      [] t = Cmpl3 -> [x |-> RSub(self.x_, vector.x_),
                       y |-> RSub(self.y_, vector.y_),
                       z |-> RSub(self.z_, vector.z_)]
      [] t = Cmpl4 -> [x |-> RSub(self.x_, vector.x_),
                       y |-> RSub(self.y_, vector.y_),
                       z |-> RSub(self.z_, vector.z_),
                       w |-> RSub(self.w_, vector.w_)]

\* operator-(RRefPacker<T> pack) const
\* bodies: V1 638, Rec2 1209, Rec3 1803, Rec4 2525, Cmpl2 3924, Cmpl3 4517,
\* Cmpl4 5240
operator_minus_pack(t, self, pack) ==
    CASE t = V1 -> [x |-> RSub(self.x_, pack.x)]
      [] t = Rec2 -> [x |-> RSub(self.x_, pack.x), y |-> RSub(self.y_, pack.y)]
      [] t = Rec3 -> [x |-> RSub(self.x_, pack.x),
                      y |-> RSub(self.y_, pack.y),
                      z |-> RSub(self.z_, pack.z)]
      [] t = Rec4 -> [x |-> RSub(self.x_, pack.x),
                      y |-> RSub(self.y_, pack.y),
                      z |-> RSub(self.z_, pack.z),
                      w |-> RSub(self.w_, pack.w)]
      [] t = Cmpl2 -> [x |-> RSub(self.x_, pack.x), y |-> RSub(self.y_, pack.y)]
      [] t = Cmpl3 -> [x |-> RSub(self.x_, pack.x),
                       y |-> RSub(self.y_, pack.y),
                       z |-> RSub(self.z_, pack.z)]
      [] t = Cmpl4 -> [x |-> RSub(self.x_, pack.x),
                       y |-> RSub(self.y_, pack.y),
                       z |-> RSub(self.z_, pack.z),
                       w |-> RSub(self.w_, pack.w)]

\* faulty variant: pack - vector computed as vector - pack
operator_minus_left_swapped(t, pack, vector) == operator_minus_pack(t, vector, pack)

\* friend operator-(RRefPacker<T> pack, LRefConstEucVector vector), and the
\* overload taking RRefEucVector, whose body moves from the same members
\* bodies: V1 652, 659, Rec2 1216, 1223, Rec3 1810, 1817, Rec4 2532, 2539,
\* Cmpl2 3931, 3938, Cmpl3 4524, 4531, Cmpl4 5247, 5254
operator_minus_left(t, pack, vector) ==
    CASE t = V1 -> [x |-> RSub(pack.x, vector.x_)]
      [] t = Rec2 -> [x |-> RSub(pack.x, vector.x_), y |-> RSub(pack.y, vector.y_)]
      [] t = Rec3 -> [x |-> RSub(pack.x, vector.x_),
                      y |-> RSub(pack.y, vector.y_),
                      z |-> RSub(pack.z, vector.z_)]
      [] t = Rec4 -> [x |-> RSub(pack.x, vector.x_),
                      y |-> RSub(pack.y, vector.y_),
                      z |-> RSub(pack.z, vector.z_),
                      w |-> RSub(pack.w, vector.w_)]
      [] t = Cmpl2 -> [x |-> RSub(pack.x, vector.x_), y |-> RSub(pack.y, vector.y_)]
      [] t = Cmpl3 -> [x |-> RSub(pack.x, vector.x_),
                       y |-> RSub(pack.y, vector.y_),
                       z |-> RSub(pack.z, vector.z_)]
      [] t = Cmpl4 -> [x |-> RSub(pack.x, vector.x_),
                       y |-> RSub(pack.y, vector.y_),
                       z |-> RSub(pack.z, vector.z_),
                       w |-> RSub(pack.w, vector.w_)]

\* operator*(S&& scl) const
\* bodies: V1 666, Rec2 1230, Rec3 1824, Rec4 2546, Cmpl2 3945, Cmpl3 4538,
\* Cmpl4 5261
operator_mul(t, self, scl) ==
    CASE t = V1 -> [x |-> RMul(self.x_, scl)]
      [] t = Rec2 -> [x |-> RMul(self.x_, scl), y |-> RMul(self.y_, scl)]
      [] t = Rec3 -> [x |-> RMul(self.x_, scl), y |-> RMul(self.y_, scl),
                      z |-> RMul(self.z_, scl)]
      [] t = Rec4 -> [x |-> RMul(self.x_, scl), y |-> RMul(self.y_, scl),
                      z |-> RMul(self.z_, scl), w |-> RMul(self.w_, scl)]
      [] t = Cmpl2 -> [x |-> RMul(self.x_, scl), y |-> RMul(self.y_, scl)]
      [] t = Cmpl3 -> [x |-> RMul(self.x_, scl), y |-> RMul(self.y_, scl),
                       z |-> RMul(self.z_, scl)]
      [] t = Cmpl4 -> [x |-> RMul(self.x_, scl), y |-> RMul(self.y_, scl),
                       z |-> RMul(self.z_, scl), w |-> RMul(self.w_, scl)]

\* operator/(S&& scl) const
\* bodies: V1 687, Rec2 1251, Rec3 1845, Rec4 2567, Cmpl2 3966, Cmpl3 4559,
\* Cmpl4 5282
operator_div(t, self, scl) ==
    CASE t = V1 -> [x |-> RDiv(self.x_, scl)]
      [] t = Rec2 -> [x |-> RDiv(self.x_, scl), y |-> RDiv(self.y_, scl)]
      [] t = Rec3 -> [x |-> RDiv(self.x_, scl), y |-> RDiv(self.y_, scl),
                      z |-> RDiv(self.z_, scl)]
      [] t = Rec4 -> [x |-> RDiv(self.x_, scl), y |-> RDiv(self.y_, scl),
                      z |-> RDiv(self.z_, scl), w |-> RDiv(self.w_, scl)]
      [] t = Cmpl2 -> [x |-> RDiv(self.x_, scl), y |-> RDiv(self.y_, scl)]
      [] t = Cmpl3 -> [x |-> RDiv(self.x_, scl), y |-> RDiv(self.y_, scl),
                       z |-> RDiv(self.z_, scl)]
      [] t = Cmpl4 -> [x |-> RDiv(self.x_, scl), y |-> RDiv(self.y_, scl),
                       z |-> RDiv(self.z_, scl), w |-> RDiv(self.w_, scl)]

\* faulty variant: scl * vector scaling by the square of scl
operator_mul_left_squares(t, scl, right) ==
    PackOfSeq([i \in 1..EucD(t) |-> RMul(Elems(t, right)[i], RMul(scl, scl))])

\* friend operator*(S&& scl, LRefConstEuc right); the overload taking
\* RRefEuc right has the same body with the members moved
\* bodies: V1 673, Rec2 1237, Rec3 1831, Rec4 2553, Cmpl2 3952, Cmpl3 4545,
\* Cmpl4 5268
operator_mul_left(t, scl, right) ==
    CASE t = V1 -> [x |-> RMul(right.x_, scl)]
      [] t = Rec2 -> [x |-> RMul(right.x_, scl), y |-> RMul(right.y_, scl)]
      [] t = Rec3 -> [x |-> RMul(right.x_, scl), y |-> RMul(right.y_, scl),
                      z |-> RMul(right.z_, scl)]
      [] t = Rec4 -> [x |-> RMul(right.x_, scl), y |-> RMul(right.y_, scl),
                      z |-> RMul(right.z_, scl), w |-> RMul(right.w_, scl)]
      [] t = Cmpl2 -> [x |-> RMul(right.x_, scl), y |-> RMul(right.y_, scl)]
      [] t = Cmpl3 -> [x |-> RMul(right.x_, scl), y |-> RMul(right.y_, scl),
                       z |-> RMul(right.z_, scl)]
      [] t = Cmpl4 -> [x |-> RMul(right.x_, scl), y |-> RMul(right.y_, scl),
                       z |-> RMul(right.z_, scl), w |-> RMul(right.w_, scl)]

(***************************************************************************)
(* operator* and operator/ of ResultPacker_n                               *)
(***************************************************************************)
\* ResultPacker_n::operator*(T&& scl)                bodies 286, 350, 414, 478
pack_operator_mul(n, pack, scl) ==
    CASE n = 1 -> [x |-> RMul(pack.x, scl)]
      [] n = 2 -> [x |-> RMul(pack.x, scl), y |-> RMul(pack.y, scl)]
      [] n = 3 -> [x |-> RMul(pack.x, scl), y |-> RMul(pack.y, scl), z |-> RMul(pack.z, scl)]
      [] n = 4 -> [x |-> RMul(pack.x, scl), y |-> RMul(pack.y, scl), z |-> RMul(pack.z, scl), w |-> RMul(pack.w, scl)]

\* friend operator*(T&& scl, ResultPacker_n<E>&& right)
\*                                                   bodies 293, 357, 421, 485
pack_operator_mul_left(n, scl, right) ==
    CASE n = 1 -> [x |-> RMul(right.x, scl)]
      [] n = 2 -> [x |-> RMul(right.x, scl), y |-> RMul(right.y, scl)]
      [] n = 3 -> [x |-> RMul(right.x, scl), y |-> RMul(right.y, scl), z |-> RMul(right.z, scl)]
      [] n = 4 -> [x |-> RMul(right.x, scl), y |-> RMul(right.y, scl), z |-> RMul(right.z, scl), w |-> RMul(right.w, scl)]

\* ResultPacker_n::operator/(T&& scl)                bodies 300, 364, 428, 492
pack_operator_div(n, pack, scl) ==
    CASE n = 1 -> [x |-> RDiv(pack.x, scl)]
      [] n = 2 -> [x |-> RDiv(pack.x, scl), y |-> RDiv(pack.y, scl)]
      [] n = 3 -> [x |-> RMul(pack.x, scl), y |-> RMul(pack.y, scl), z |-> RMul(pack.z, scl)]
      [] n = 4 -> [x |-> RMul(pack.x, scl), y |-> RMul(pack.y, scl), z |-> RMul(pack.z, scl), w |-> RMul(pack.w, scl)]

(***************************************************************************)
(* operator+=, operator-=, operator*=, operator/=.                         *)
(* Each has a direct overload (x_ += r) and a fallback overload            *)
(* (x_ = x_ + r).  r is the tuple of right-hand operands, one per member:  *)
(* the members of the vector or ResultPacker argument, or the scalar.      *)
(***************************************************************************)
\* faulty variant: a -= that subtracts the member from the operand
Apply_reversed(op, l, r) ==
    CASE op = "+=" -> RAdd(l, r)
      [] op = "-=" -> RSub(r, l)
      [] op = "*=" -> RMul(l, r)
      [] op = "/=" -> RDiv(l, r)

\* l OP r on ElemType; for an arithmetic ElemType l OP= r stores the same
\* value as l = l OP r
Apply(op, l, r) ==
    CASE op = "+=" -> RAdd(l, r)
      [] op = "-=" -> RSub(l, r)
      [] op = "*=" -> RMul(l, r)
      [] op = "/=" -> RDiv(l, r)

\* the direct overloads:  x_ += vector.x_;  y_ += vector.y_;  ...
\* += bodies: V1 836, Rec2 1403, Rec3 2000, Rec4 2725, Cmpl2 4118,
\*            Cmpl3 4714, Cmpl4 5440
\* -= bodies: V1 878, Rec2 1451, Rec3 2054, Rec4 2785, Cmpl2 4166,
\*            Cmpl3 4768, Cmpl4 5500
\* *= bodies: V1 921, Rec2 1500, Rec3 2109, Rec4 2846, Cmpl2 4215,
\*            Cmpl3 4823, Cmpl4 5561
\* /= bodies: V1 935, Rec2 1516, Rec3 2127, Rec4 2866, Cmpl2 4231,
\*            Cmpl3 4841, Cmpl4 5581
compound_assign(t, op, self, r) ==
    CASE t = V1 -> [self EXCEPT !.x_ = Apply(op, self.x_, r[1])]
      [] t = Rec2 -> [self EXCEPT !.x_ = Apply(op, self.x_, r[1]),
                                  !.y_ = Apply(op, self.y_, r[2])]
      [] t = Rec3 -> [self EXCEPT !.x_ = Apply(op, self.x_, r[1]),
                                  !.y_ = Apply(op, self.y_, r[2]),
                                  !.z_ = Apply(op, self.z_, r[3])]
      [] t = Rec4 -> [self EXCEPT !.x_ = Apply(op, self.x_, r[1]),
                                  !.y_ = Apply(op, self.y_, r[2]),
                                  !.z_ = Apply(op, self.z_, r[3]),
                                  !.w_ = Apply(op, self.w_, r[4])]
      [] t = Cmpl2 -> [self EXCEPT !.x_ = Apply(op, self.x_, r[1]),
                                   !.y_ = Apply(op, self.y_, r[2])]
      [] t = Cmpl3 -> [self EXCEPT !.x_ = Apply(op, self.x_, r[1]),
                                   !.y_ = Apply(op, self.y_, r[2]),
                                   !.z_ = Apply(op, self.z_, r[3])]
      [] t = Cmpl4 -> [self EXCEPT !.x_ = Apply(op, self.x_, r[1]),
                                   !.y_ = Apply(op, self.y_, r[2]),
                                   !.z_ = Apply(op, self.z_, r[3]),
                                   !.w_ = Apply(op, self.w_, r[4])]

\* faulty variant: a fallback that leaves the last member as it was
compound_assign_keeps_last(t, op, self, r) ==
    set(t, self, [i \in 1..EucD(t) |->
                    IF i = EucD(t) THEN Elems(t, self)[i]
                    ELSE Apply(op, Elems(t, self)[i], r[i])])

\* the fallback overloads:  x_ = x_ + vector.x_;  y_ = y_ + vector.y_;  ...
\* += bodies: V1 857, Rec2 1427, Rec3 2027, Rec4 2755, Cmpl2 4142,
\*            Cmpl3 4741, Cmpl4 5470
\* -= bodies: V1 899, Rec2 1475, Rec3 2081, Rec4 2815, Cmpl2 4190,
\*            Cmpl3 4795, Cmpl4 5530
\* *= bodies: V1 928, Rec2 1508, Rec3 2118, Rec4 2856, Cmpl2 4223,
\*            Cmpl3 4832, Cmpl4 5571
\* /= bodies: V1 942, Rec2 1524, Rec3 2136, Rec4 2876, Cmpl2 4239,
\*            Cmpl3 4850, Cmpl4 5591
compound_assign_fallback(t, op, self, r) ==
    CASE t = V1 -> [self EXCEPT !.x_ = Apply(op, self.x_, r[1])]
      [] t = Rec2 -> [self EXCEPT !.x_ = Apply(op, self.x_, r[1]),
                                  !.y_ = Apply(op, self.y_, r[2])]
      [] t = Rec3 -> [self EXCEPT !.x_ = Apply(op, self.x_, r[1]),
                                  !.y_ = Apply(op, self.y_, r[2]),
                                  !.z_ = Apply(op, self.z_, r[3])]
      [] t = Rec4 -> [self EXCEPT !.x_ = Apply(op, self.x_, r[1]),
                                  !.y_ = Apply(op, self.y_, r[2]),
                                  !.z_ = Apply(op, self.z_, r[3]),
                                  !.w_ = Apply(op, self.w_, r[4])]
      [] t = Cmpl2 -> [self EXCEPT !.x_ = Apply(op, self.x_, r[1]),
                                   !.y_ = Apply(op, self.y_, r[2])]
      [] t = Cmpl3 -> [self EXCEPT !.x_ = Apply(op, self.x_, r[1]),
                                   !.y_ = Apply(op, self.y_, r[2]),
                                   !.z_ = Apply(op, self.z_, r[3])]
      [] t = Cmpl4 -> [self EXCEPT !.x_ = Apply(op, self.x_, r[1]),
                                   !.y_ = Apply(op, self.y_, r[2]),
                                   !.z_ = Apply(op, self.z_, r[3]),
                                   !.w_ = Apply(op, self.w_, r[4])]

(***************************************************************************)
(* normalize_self(): the object divided in place by its own norm.          *)
(* The trailing return type names LRefEucVector /= eucnorm<T>(), so the    *)
(* function exists only where eucnorm<T>() does.  eucnorm<T>() returns by  *)
(* value: the divisor is the norm of the object before any member changes. *)
(***************************************************************************)
\* bodies: V1 1066-1068 (x_ /= norm), Rec2 1660, Rec3 2353, Rec4 3784,
\* Cmpl2 4375, Cmpl3 5065, Cmpl4 6496 (*this /= eucnorm<T>())
normalize_self(t, self) ==
    LET norm == eucnorm(t, self)
    IN  IF norm = IllFormed THEN IllFormed
        ELSE
        CASE t = V1 -> [self EXCEPT !.x_ = Apply("/=", self.x_, norm)]
          [] t = Rec2 -> compound_assign(t, "/=", self, <<norm, norm>>)
          [] t = Rec3 -> compound_assign(t, "/=", self, <<norm, norm, norm>>)
          [] t = Rec4 -> compound_assign(t, "/=", self, <<norm, norm, norm, norm>>)
          [] t = Cmpl2 -> compound_assign(t, "/=", self, <<norm, norm>>)
          [] t = Cmpl3 -> compound_assign(t, "/=", self, <<norm, norm, norm>>)
          [] t = Cmpl4 -> compound_assign(t, "/=", self, <<norm, norm, norm, norm>>)

(***************************************************************************)
(* Overload resolution of the compound assignments.                        *)
(* A direct and a fallback overload share their parameter list; each is    *)
(* viable when the expressions of its trailing return type are valid.      *)
(* An ElemType is described by the compound assignments it provides; it    *)
(* provides every binary operator.                                         *)
(***************************************************************************)
CompoundOps == {"+=", "-=", "*=", "/="}

ElemTypes == SUBSET CompoundOps

\* meta::is_add_equal_v / is_sub_equal_v / is_mul_equal_v / is_div_equal_v
\* of the vector and the argument: inside the trait the fallback overload
\* of the same operator drops out (it needs the trait that is being
\* computed), which leaves the direct overload
is_equal_v(op, elem) == op \in elem

\* the overloads of operator op that are viable for an ElemType
\* direct:   decltype(x_ += vector.x_, ...)                          834-835
\* fallback: decltype(meta::cnd_type<!meta::is_add_equal_v<...>>,
\*                    x_ = x_ + vector.x_, ...)                      855-856
\* the fallback of -= tests is_add_equal_v as well                   897-898
\* the fallback of *= tests is_mul_equal_v                           926-927
\* the fallback of /= tests is_div_equal_v                           940-941
\* (the same traits in Rec2 1425-1522, Rec3 2025-2134, Rec4 2753-2874,
\* Cmpl2 4140-4237, Cmpl3 4739-4848, Cmpl4 5468-5589)
viable(t, op, elem) ==
    LET direct == IF op \in elem THEN {"direct"} ELSE {}
        tested == CASE op = "+=" -> "+="
                    [] op = "-=" -> "+="
                    [] op = "*=" -> "*="
                    [] op = "/=" -> "/="
        fallback == IF ~is_equal_v(tested, elem) THEN {"fallback"} ELSE {}
    IN  direct \cup fallback

(***************************************************************************)
(* cross (three-dimensional types only)                                    *)
(***************************************************************************)
\* faulty variant: the second component with the wrong sign
cross_y_negated(t, self, right) ==
    [x |-> RSub(RMul(self.y_, right.z_), RMul(self.z_, right.y_)),
     y |-> RSub(RMul(self.x_, right.z_), RMul(self.z_, right.x_)),
     z |-> RSub(RMul(self.x_, right.y_), RMul(self.y_, right.x_))]

\* faulty variant: the second component adds its two products
cross_y_symmetric(t, self, right) ==
    [x |-> RSub(RMul(self.y_, right.z_), RMul(self.z_, right.y_)),
     y |-> RAdd(RMul(self.z_, right.x_), RMul(self.x_, right.z_)),
     z |-> RSub(RMul(self.x_, right.y_), RMul(self.y_, right.x_))]

\* faulty variant: the first and third components exchanged
cross_xz_exchanged(t, self, right) ==
    [x |-> RSub(RMul(self.x_, right.y_), RMul(self.y_, right.x_)),
     y |-> RSub(RMul(self.z_, right.x_), RMul(self.x_, right.z_)),
     z |-> RSub(RMul(self.y_, right.z_), RMul(self.z_, right.y_))]

\* cross(const Vec<T>& right) const.  bodies: Rec3 2370, Cmpl3 5082
cross(t, self, right) ==
    CASE t = Rec3 ->
            [x |-> RSub(RMul(self.y_, right.z_), RMul(self.z_, right.y_)),
             y |-> RSub(RMul(self.z_, right.x_), RMul(self.x_, right.z_)),
             z |-> RSub(RMul(self.x_, right.y_), RMul(self.y_, right.x_))]
      [] t = Cmpl3 ->
            [x |-> RSub(RMul(self.y_, right.z_), RMul(self.z_, right.y_)),
             y |-> RSub(RMul(self.z_, right.x_), RMul(self.x_, right.z_)),
             z |-> RSub(RMul(self.x_, right.y_), RMul(self.y_, right.x_))]

\* cross(Vec<T>&& right) const.  bodies: Rec3 2377, Cmpl3 5089
cross_rvalue(t, self, right) ==
    CASE t = Rec3 ->
            [x |-> RSub(RMul(self.y_, right.z_), RMul(self.z_, right.y_)),
             y |-> RSub(RMul(self.z_, right.x_), RMul(self.x_, right.z_)),
             z |-> RSub(RMul(self.x_, right.y_), RMul(self.y_, right.x_))]
      [] t = Cmpl3 ->
            [x |-> RSub(RMul(self.y_, right.z_), RMul(self.z_, right.y_)),
             y |-> RSub(RMul(self.z_, right.x_), RMul(self.x_, right.z_)),
             z |-> RSub(RMul(self.x_, right.y_), RMul(self.y_, right.x_))]

\* cross(RRefPacker<T> right) const.  bodies: Rec3 2384, Cmpl3 5096
cross_pack(t, self, right) ==
    CASE t = Rec3 ->
            [x |-> RSub(RMul(self.y_, right.z), RMul(self.z_, right.y)),
             y |-> RSub(RMul(self.z_, right.x), RMul(self.x_, right.z)),
             z |-> RSub(RMul(self.x_, right.y), RMul(self.y_, right.x))]
      [] t = Cmpl3 ->
            [x |-> RSub(RMul(self.y_, right.z), RMul(self.z_, right.y)),
             y |-> RSub(RMul(self.z_, right.x), RMul(self.x_, right.z)),
             z |-> RSub(RMul(self.x_, right.y), RMul(self.y_, right.x))]

(***************************************************************************)
(* zero_self                                                               *)
(***************************************************************************)
\* bodies: V1 976, Rec2 1571-1572, Rec3 2262-2264, Rec4 3691-3694,
\* Cmpl2 4286-4287, Cmpl3 4974-4976, Cmpl4 6403-6406
zero_self(t, self) ==
    CASE t = V1 -> [self EXCEPT !.x_ = Num(0)]
      [] t = Rec2 -> [self EXCEPT !.x_ = Num(0), !.y_ = Num(0)]
      [] t = Rec3 -> [self EXCEPT !.x_ = Num(0), !.y_ = Num(0), !.z_ = Num(0)]
      [] t = Rec4 -> [self EXCEPT !.x_ = Num(0), !.y_ = Num(0), !.z_ = Num(0),
                                  !.w_ = Num(0)]
      [] t = Cmpl2 -> [self EXCEPT !.x_ = Num(0), !.y_ = Num(0)]
      [] t = Cmpl3 -> [self EXCEPT !.x_ = Num(0), !.y_ = Num(0), !.z_ = Num(0)]
      [] t = Cmpl4 -> [self EXCEPT !.x_ = Num(0), !.y_ = Num(0), !.z_ = Num(0),
                                   !.w_ = Num(0)]

(***************************************************************************)
(* operator==(const EucVector&) const: the member-wise comparison, joined  *)
(* with &&.  Two elements compare equal when they hold the same number; a  *)
(* floating element that is not a number compares unequal to everything.   *)
(***************************************************************************)
\* bodies: V1 694, Rec2 1258, Rec3 1852, Rec4 2574, Cmpl2 3973, Cmpl3 4566,
\* Cmpl4 5289
operator_eq(t, self, right) ==
    LET Eq(p, q) == p.k # "nan" /\ q.k # "nan" /\ p = q
    IN  CASE t = V1 -> Eq(self.x_, right.x_)
          [] t = Rec2 -> Eq(self.x_, right.x_) /\ Eq(self.y_, right.y_)
          [] t = Rec3 -> Eq(self.x_, right.x_) /\ Eq(self.y_, right.y_)
                            /\ Eq(self.z_, right.z_)
          [] t = Rec4 -> Eq(self.x_, right.x_) /\ Eq(self.y_, right.y_)
                            /\ Eq(self.z_, right.z_) /\ Eq(self.w_, right.w_)
          [] t = Cmpl2 -> Eq(self.x_, right.x_) /\ Eq(self.y_, right.y_)
          [] t = Cmpl3 -> Eq(self.x_, right.x_) /\ Eq(self.y_, right.y_)
                             /\ Eq(self.z_, right.z_)
          [] t = Cmpl4 -> Eq(self.x_, right.x_) /\ Eq(self.y_, right.y_)
                             /\ Eq(self.z_, right.z_) /\ Eq(self.w_, right.w_)

\* operator!=(const EucVector&) const, the direct overload: the member-wise
\* !=, joined with ||
\* bodies: V1 729, Rec2 1293, Rec3 1887, Rec4 2609, Cmpl2 4008, Cmpl3 4601,
\* Cmpl4 5324
operator_ne(t, self, right) ==
    LET Ne(p, q) == p.k = "nan" \/ q.k = "nan" \/ p # q
    IN  CASE t = V1 -> Ne(self.x_, right.x_)
          [] t = Rec2 -> Ne(self.x_, right.x_) \/ Ne(self.y_, right.y_)
          [] t = Rec3 -> Ne(self.x_, right.x_) \/ Ne(self.y_, right.y_) \/ Ne(self.z_, right.z_)
          [] t = Rec4 -> Ne(self.x_, right.x_) \/ Ne(self.y_, right.y_)
                            \/ Ne(self.z_, right.z_) \/ Ne(self.w_, right.w_)
          [] t = Cmpl2 -> Ne(self.x_, right.x_) \/ Ne(self.y_, right.y_)
          [] t = Cmpl3 -> Ne(self.x_, right.x_) \/ Ne(self.y_, right.y_) \/ Ne(self.z_, right.z_)
          [] t = Cmpl4 -> Ne(self.x_, right.x_) \/ Ne(self.y_, right.y_)
                             \/ Ne(self.z_, right.z_) \/ Ne(self.w_, right.w_)

\* operator!=(const EucVector&) const, the overload taken when ElemType has
\* no !=: the member-wise !(==), joined with ||
\* bodies: V1 764, Rec2 1328, Rec3 1922, Rec4 2644, Cmpl2 4043, Cmpl3 4636,
\* Cmpl4 5359
operator_ne_fallback(t, self, right) ==
    LET Eq(p, q) == p.k # "nan" /\ q.k # "nan" /\ p = q
    IN  CASE t = V1 -> ~Eq(self.x_, right.x_)
          [] t = Rec2 -> ~Eq(self.x_, right.x_) \/ ~Eq(self.y_, right.y_)
          [] t = Rec3 -> ~Eq(self.x_, right.x_) \/ ~Eq(self.y_, right.y_) \/ ~Eq(self.z_, right.z_)
          [] t = Rec4 -> ~Eq(self.x_, right.x_) \/ ~Eq(self.y_, right.y_)
                            \/ ~Eq(self.z_, right.z_) \/ ~Eq(self.w_, right.w_)
          [] t = Cmpl2 -> ~Eq(self.x_, right.x_) \/ ~Eq(self.y_, right.y_)
          [] t = Cmpl3 -> ~Eq(self.x_, right.x_) \/ ~Eq(self.y_, right.y_) \/ ~Eq(self.z_, right.z_)
          [] t = Cmpl4 -> ~Eq(self.x_, right.x_) \/ ~Eq(self.y_, right.y_)
                             \/ ~Eq(self.z_, right.z_) \/ ~Eq(self.w_, right.w_)

\* ResultPacker_n::operator==(ResultPacker_n<T>&& right).  The trailing return
\* type is decltype(bool(...), std::declval<bool>()), the type of an xvalue:
\* bool&&.  The function returns a reference to the temporary that holds
\* the value of its return statement.                bodies 307, 371, 435, 499
pack_operator_eq(n, left, right) ==
    LET Eq(p, q) == p.k # "nan" /\ q.k # "nan" /\ p = q
    IN  [type |-> "bool&&", val |->
          CASE n = 1 -> Eq(left.x, right.x)
          [] n = 2 -> Eq(left.x, right.x) /\ Eq(left.y, right.y)
          [] n = 3 -> Eq(left.x, right.x) /\ Eq(left.y, right.y) /\ Eq(left.z, right.z)
          [] n = 4 -> Eq(left.x, right.x) /\ Eq(left.y, right.y)
                         /\ Eq(left.z, right.z) /\ Eq(left.w, right.w)]

\* ResultPacker_n::operator!=(ResultPacker_n<T>&& right), with the same
\* return type; the overload taken when ElemType has no != joins !(==) and
\* returns bool&& as well.            bodies 314, 378, 442, 506 (321, 385, 449, 513)
pack_operator_ne(n, left, right) ==
    LET Ne(p, q) == p.k = "nan" \/ q.k = "nan" \/ p # q
    IN  [type |-> "bool&&", val |->
          CASE n = 1 -> Ne(left.x, right.x)
          [] n = 2 -> Ne(left.x, right.x) \/ Ne(left.y, right.y)
          [] n = 3 -> Ne(left.x, right.x) \/ Ne(left.y, right.y) \/ Ne(left.z, right.z)
          [] n = 4 -> Ne(left.x, right.x) \/ Ne(left.y, right.y)
                         \/ Ne(left.z, right.z) \/ Ne(left.w, right.w)]

(***************************************************************************)
(* xy() and xyz() of the Rec family.                                       *)
(* Both return *this converted to a reference to a base class.  A          *)
(* reference is modelled by the name of the object it designates; an       *)
(* object returned by value carries its own copy of the members.           *)
(***************************************************************************)
\* the object a reference designates
Deref(ref) == IF ref = "a" THEN a ELSE b

\* the base-class subobject of type u inside obj: the members u declares
\* or inherits
SubObject(u, obj) ==
    CASE u = V1 -> [x_ |-> obj.x_]
      [] u = Rec2 -> [x_ |-> obj.x_, y_ |-> obj.y_]
      [] u = Rec3 -> [x_ |-> obj.x_, y_ |-> obj.y_, z_ |-> obj.z_]
      [] OTHER -> obj

\* obj after its base-class subobject has been given the members of sub
WithSubObject(obj, sub) ==
    [f \in DOMAIN obj |-> IF f \in DOMAIN sub THEN sub[f] ELSE obj[f]]

\* faulty variant: xy() returning the base-class part by value
xy_by_value(t, self) ==
    [type |-> Rec2, ref |-> "temporary", val |-> SubObject(Rec2, Deref(self))]

\* faulty variant: xy() returning *this without the conversion to MXY
xy_unconverted(t, self) == [type |-> t, ref |-> self]

\* MXY& xy() noexcept { return *this; }        Rec3 2172, Rec4 2920
xy(t, self) ==
    CASE t = Rec3 -> [type |-> Rec2, ref |-> self]
      [] t = Rec4 -> [type |-> Rec2, ref |-> self]

\* MXYZ& xyz() noexcept { return *this; }      Rec4 2924
xyz(t, self) ==
    CASE t = Rec4 -> [type |-> Rec3, ref |-> self]

(***************************************************************************)
(* Swizzles.  A swizzle is named by the letters of the members it selects; *)
(* a class of dimension d declares one for every letter sequence of length *)
(* 2..d over its first d letters, except xy in dimension 2 and xyzw in     *)
(* dimension 4, where get_pack() already returns that selection.           *)
(* Every swizzle returns a ResultPacker by value, except xy() / xyz() of   *)
(* the Rec family above.                                                   *)
(***************************************************************************)
Letters == <<"x", "y", "z", "w">>

\* the position of the member a letter names
LetterIndex(m) ==
    CASE m = "x" -> 1
      [] m = "y" -> 2
      [] m = "z" -> 3
      [] m = "w" -> 4

\* the letter sequences of length 2..d over the first d letters
Selectors(d) == UNION {[1..n -> {Letters[i] : i \in 1..d}] : n \in 2..d}

\* the swizzles a class of dimension 2, 3, 4 declares
\* Rec2 1555-1559, Cmpl2 4270-4274
Swizzles2 == Selectors(2) \ {<<"x", "y">>}

\* Rec3 2172-2250, Cmpl3 4887-4962
Swizzles3 == Selectors(3)

\* Rec4 2920-3676, Cmpl4 5637-6388
Swizzles4 == Selectors(4) \ {<<"x", "y", "z", "w">>}

Swizzles(t) ==
    CASE EucD(t) = 2 -> Swizzles2
      [] EucD(t) = 3 -> Swizzles3
      [] EucD(t) = 4 -> Swizzles4

\* the swizzles of t that return a reference to a base class
RefSwizzles(t) ==
    CASE t = Rec3 -> {<<"x", "y">>}
      [] t = Rec4 -> {<<"x", "y">>, <<"x", "y", "z">>}
      [] OTHER -> {}

\* the ResultPacker holding the members of obj that sel names, in order
Select(t, obj, sel) ==
    PackOfSeq([i \in 1..Len(sel) |-> Elems(t, obj)[LetterIndex(sel[i])]])

\* the ResultPacker_n a swizzle of n letters returns
SubPacker(n) ==
    CASE n = 2 -> "ResultPacker_2"
      [] n = 3 -> "ResultPacker_3"
      [] n = 4 -> "ResultPacker_4"

\* faulty variant: a swizzle that hands out the selected members themselves
swizzle_by_reference(t, self, sel) ==
    [type |-> SubPacker(Len(sel)), ref |-> self, sel |-> sel]

\* faulty variant: a swizzle that fills the ResultPacker from the last letter
\* to the first
swizzle_reversed(t, self, sel) ==
    [type |-> SubPacker(Len(sel)), ref |-> "temporary",
     val |-> Select(t, Deref(self), [i \in 1..Len(sel) |-> sel[Len(sel) + 1 - i]])]

\* SubPacker2<ElemType> yx() const noexcept { return { y_,x_ }; }   etc.
swizzle(t, self, sel) ==
    CASE sel \in RefSwizzles(t) /\ Len(sel) = 2 -> xy(t, self)
      [] sel \in RefSwizzles(t) /\ Len(sel) = 3 -> xyz(t, self)
      [] OTHER -> [type |-> SubPacker(Len(sel)), ref |-> "temporary",
                   val |-> Select(t, Deref(self), sel)]

(***************************************************************************)
(* Inputs and initial states.                                              *)
(***************************************************************************)
\* the integer tuples of length n with |v[1]| + ... + |v[n]| <= s
RECURSIVE IntVecs(_, _)
IntVecs(n, s) ==
    IF n = 0 THEN {<< >>}
    ELSE UNION {{<<i>> \o v : v \in IntVecs(n - 1, s - Abs(i))} : i \in (-s)..s}

\* the vectors of the documented examples
Examples(n) ==
    CASE n = 2 -> {<<3, 4>>}
      [] n = 3 -> {<<1, 2, 3>>, <<4, 5, 6>>}
      [] OTHER -> {}

\* the bounded input space of each dimension
InputSpace == [n \in 1..4 |-> IntVecs(n, MaxSum)]

Inputs(n) == InputSpace[n] \cup Examples(n)

Nums(v) == [i \in 1..Len(v) |-> Num(v[i])]

\* an object of type t holding the integer tuple v
Vec(t, v) == set(t, DefaultCtor(t), Nums(v))

NoResult == [op |-> "none"]

NoView == [type |-> "none"]

\* two objects of one type, default-constructed and filled through set()
Init ==
    /\ ty \in VecTypes
    /\ \E u \in Inputs(EucD(ty)), v \in Inputs(EucD(ty)) :
          /\ a = Vec(ty, u)
          /\ b = Vec(ty, v)
    /\ res = NoResult
    /\ view = NoView

(***************************************************************************)
(* The const operations, applied to a and b.                               *)
(***************************************************************************)
Plus ==
    /\ res' = [op |-> "operator+(const&)", val |-> operator_plus(ty, a, b)]
    /\ UNCHANGED <<ty, a, b, view>>

PlusRvalue ==
    /\ res' = [op |-> "operator+(&&)", val |-> operator_plus_rvalue(ty, a, b)]
    /\ b' = MovedFrom(ty, b)
    /\ UNCHANGED <<ty, a, view>>

PlusPack ==
    /\ res' = [op |-> "operator+(pack)", val |-> operator_plus_pack(ty, a, Packer(ty, b))]
    /\ UNCHANGED <<ty, a, b, view>>

Dot ==
    /\ res' = [op |-> "dot(const&)", val |-> dot(ty, a, b)]
    /\ UNCHANGED <<ty, a, b, view>>

DotRvalue ==
    /\ res' = [op |-> "dot(&&)", val |-> dot_rvalue(ty, a, b)]
    /\ b' = MovedFrom(ty, b)
    /\ UNCHANGED <<ty, a, view>>

DotPack ==
    /\ res' = [op |-> "dot(pack)", val |-> dot_pack(ty, a, Packer(ty, b))]
    /\ UNCHANGED <<ty, a, b, view>>

EucnormSquared ==
    /\ res' = [op |-> "eucnorm_squared", val |-> eucnorm_squared(ty, a)]
    /\ UNCHANGED <<ty, a, b, view>>

Eucnorm ==
    /\ res' = [op |-> "eucnorm", val |-> eucnorm(ty, a)]
    /\ UNCHANGED <<ty, a, b, view>>

Normalize ==
    /\ res' = [op |-> "normalize", val |-> normalize(ty, a)]
    /\ UNCHANGED <<ty, a, b, view>>

Cross ==
    /\ ty \in {Rec3, Cmpl3}
    /\ res' = [op |-> "cross(const&)", val |-> cross(ty, a, b)]
    /\ UNCHANGED <<ty, a, b, view>>

CrossRvalue ==
    /\ ty \in {Rec3, Cmpl3}
    /\ res' = [op |-> "cross(&&)", val |-> cross_rvalue(ty, a, b)]
    /\ b' = MovedFrom(ty, b)
    /\ UNCHANGED <<ty, a, view>>

CrossPack ==
    /\ ty \in {Rec3, Cmpl3}
    /\ res' = [op |-> "cross(pack)", val |-> cross_pack(ty, a, Packer(ty, b))]
    /\ UNCHANGED <<ty, a, b, view>>

(***************************************************************************)
(* Specifications of the const operations.  Each starts from objects       *)
(* filled with the inputs and evaluates one family of operations on them.  *)
(***************************************************************************)
NextPlus ==
    \/ Plus
    \/ PlusRvalue
    \/ PlusPack

SpecPlus == Init /\ [][NextPlus]_vars

NextDot ==
    \/ Dot
    \/ DotRvalue
    \/ DotPack

SpecDot == Init /\ [][NextDot]_vars

\* the unary operations read a only; b stays default-constructed
InitNorm ==
    /\ ty \in VecTypes
    /\ \E u \in Inputs(EucD(ty)) : a = Vec(ty, u)
    /\ b = DefaultCtor(ty)
    /\ res = NoResult
    /\ view = NoView

NextNorm ==
    \/ EucnormSquared
    \/ Eucnorm
    \/ Normalize

SpecNorm == InitNorm /\ [][NextNorm]_vars

NextCross ==
    \/ Cross
    \/ CrossRvalue
    \/ CrossPack

SpecCross == Init /\ [][NextCross]_vars

(***************************************************************************)
(* Mutation of a Rec3 / Rec4 object a, directly and through the reference  *)
(* xy() or xyz() returned.  The objects stay within the input space.       *)
(***************************************************************************)
InitView ==
    /\ ty \in {Rec3, Rec4}
    /\ a = DefaultCtor(ty)
    /\ b = DefaultCtor(ty)
    /\ res = NoResult
    /\ view = NoView

\* obj holds a member of the bounded input space
InRange(t, obj) ==
    LET e == Elems(t, obj)
        SumAbs[i \in 0..Len(e)] ==
            IF i = 0 THEN 0 ELSE SumAbs[i - 1] + Abs(e[i].n)
    IN  /\ \A i \in 1..Len(e) : e[i].k = "fin" /\ e[i].d = 1 /\ e[i].r = 1
        /\ SumAbs[Len(e)] <= MaxSum

\* the object the view gives access to
Viewed ==
    IF view.ref = "temporary" THEN view.val
    ELSE SubObject(view.type, Deref(view.ref))

\* a mutator called on a leaves it as obj
Mutates(o, obj) ==
    /\ InRange(ty, obj)
    /\ a' = obj
    /\ res' = [op |-> o]
    /\ UNCHANGED <<ty, b, view>>

\* the members of obj that an object of type u inside it does not hold
Outside(u, obj) == [i \in (EucD(u) + 1)..EucD(ty) |-> Elems(ty, obj)[i]]

\* a mutator called on the view leaves the viewed object as sub; res keeps
\* the members of a outside the view as they were before the call
MutatesViewed(o, sub) ==
    /\ res' = [op |-> o, outside |-> Outside(view.type, a)]
    /\ IF view.ref = "temporary"
       THEN /\ view' = [view EXCEPT !.val = sub]
            /\ UNCHANGED <<ty, a, b>>
       ELSE /\ InRange(ty, WithSubObject(a, sub))
            /\ a' = WithSubObject(a, sub)
            /\ UNCHANGED <<ty, b, view>>

Set ==
    \E v \in InputSpace[EucD(ty)] :
        /\ a' = set(ty, a, Nums(v))
        /\ res' = [op |-> "set", args |-> v]
        /\ UNCHANGED <<ty, b, view>>

ZeroSelf ==
    /\ InRange(ty, zero_self(ty, a))
    /\ a' = zero_self(ty, a)
    /\ res' = [op |-> "zero_self"]
    /\ UNCHANGED <<ty, b, view>>

AssignPack ==
    \E v \in InputSpace[EucD(ty)] :
        Mutates("operator=(pack)", operator_assign_pack(ty, a, PackOfSeq(Nums(v))))

XY ==
    /\ ty \in {Rec3, Rec4}
    /\ view' = xy(ty, "a")
    /\ res' = [op |-> "xy"]
    /\ UNCHANGED <<ty, a, b>>

XYZ ==
    /\ ty = Rec4
    /\ view' = xyz(ty, "a")
    /\ res' = [op |-> "xyz"]
    /\ UNCHANGED <<ty, a, b>>

ViewSet ==
    /\ view # NoView
    /\ \E v \in InputSpace[EucD(view.type)] :
          MutatesViewed("view.set", set(view.type, Viewed, Nums(v)))

ViewZeroSelf ==
    /\ view # NoView
    /\ MutatesViewed("view.zero_self", zero_self(view.type, Viewed))

ViewAssignPack ==
    /\ view # NoView
    /\ \E v \in InputSpace[EucD(view.type)] :
          MutatesViewed("view.operator=(pack)",
                        operator_assign_pack(view.type, Viewed, PackOfSeq(Nums(v))))

\* view += r, view -= r (r a vector of the view's type), view *= scl and
\* view /= scl, through the overloads an arithmetic ElemType selects
ViewCompound ==
    /\ view # NoView
    /\ \/ \E op \in {"+=", "-="}, v \in InputSpace[EucD(view.type)] :
             MutatesViewed("view.compound",
                           compound_assign(view.type, op, Viewed, Nums(v)))
       \/ \E op \in {"*=", "/="}, scl \in (-MaxSum)..MaxSum :
             MutatesViewed("view.compound",
                           compound_assign(view.type, op, Viewed,
                                           [i \in 1..EucD(view.type) |-> Num(scl)]))

ViewNormalizeSelf ==
    /\ view # NoView
    /\ normalize_self(view.type, Viewed) # IllFormed
    /\ MutatesViewed("view.normalize_self", normalize_self(view.type, Viewed))

\* view.x() = v, view.y() = v, view.z() = v through the references the
\* accessors of the view's type return
ViewWrite ==
    /\ view # NoView
    /\ \E i \in 1..EucD(view.type), v \in (-MaxSum)..MaxSum :
          MutatesViewed("view.write",
                        set(view.type, Viewed,
                            [Elems(view.type, Viewed) EXCEPT ![i] = Num(v)]))

NextView ==
    \/ Set
    \/ ZeroSelf
    \/ AssignPack
    \/ XY
    \/ XYZ
    \/ ViewSet
    \/ ViewZeroSelf
    \/ ViewAssignPack
    \/ ViewCompound
    \/ ViewNormalizeSelf
    \/ ViewWrite

SpecView == InitView /\ [][NextView]_vars

(***************************************************************************)
(* Mutation of a Cmpl object a and of the ResultPacker p a swizzle of a    *)
(* returned.  ResultPacker_N is an aggregate; its members are written      *)
(* directly.                                                               *)
(***************************************************************************)
InitCopy ==
    /\ ty \in {Cmpl2, Cmpl3, Cmpl4}
    /\ a = DefaultCtor(ty)
    /\ b = DefaultCtor(ty)
    /\ res = NoResult
    /\ view = NoView

\* the swizzles called: every two-letter swizzle, and xyz()
CopySwizzles(t) ==
    {sel \in Swizzles(t) : Len(sel) = 2 \/ sel = <<"x", "y", "z">>}

PackDegree(type) ==
    CASE type = "ResultPacker_2" -> 2
      [] type = "ResultPacker_3" -> 3
      [] type = "ResultPacker_4" -> 4

\* the ResultPacker read through the value a swizzle returned
Seen ==
    IF view.ref = "temporary" THEN view.val
    ELSE Select(ty, Deref(view.ref), view.sel)

\* the entries of e are integers with |e[1]| + ... + |e[n]| <= MaxWrite
WithinWrite(e) ==
    LET SumAbs[i \in 0..Len(e)] ==
            IF i = 0 THEN 0 ELSE SumAbs[i - 1] + Abs(e[i].n)
    IN  /\ \A i \in 1..Len(e) : e[i].k = "fin" /\ e[i].d = 1 /\ e[i].r = 1
        /\ SumAbs[Len(e)] <= MaxWrite

\* a.x() = v, a.y() = v, ... through the references the accessors return
WriteElement ==
    /\ res' = [op |-> "write"]
    /\ \E i \in 1..EucD(ty), v \in (-MaxWrite)..MaxWrite :
          LET obj == set(ty, a, [Elems(ty, a) EXCEPT ![i] = Num(v)])
          IN  /\ WithinWrite(Elems(ty, obj))
              /\ a' = obj
    /\ UNCHANGED <<ty, b, view>>

\* p = a.<sel>()
Swizzle ==
    /\ \E sel \in CopySwizzles(ty) : view' = swizzle(ty, "a", sel)
    /\ res' = [op |-> "swizzle"]
    /\ UNCHANGED <<ty, a, b>>

\* p.x = v, p.y = v, ...
PackWrite ==
    /\ view # NoView
    /\ res' = [op |-> "pack.write"]
    /\ \E i \in 1..PackDegree(view.type), v \in (-MaxWrite)..MaxWrite :
          IF view.ref = "temporary"
          THEN LET pack == [view.val EXCEPT ![Letters[i]] = Num(v)]
               IN  /\ WithinWrite(PackElems(PackDegree(view.type), pack))
                   /\ view' = [view EXCEPT !.val = pack]
                   /\ UNCHANGED <<ty, a, b>>
          ELSE LET e == Elems(ty, Deref(view.ref))
                   obj == set(ty, a, [e EXCEPT ![LetterIndex(view.sel[i])] = Num(v)])
               IN  /\ WithinWrite(Elems(ty, obj))
                   /\ a' = obj
                   /\ UNCHANGED <<ty, b, view>>

NextCopy ==
    \/ WriteElement
    \/ ZeroSelf
    \/ Swizzle
    \/ PackWrite

SpecCopy == InitCopy /\ [][NextCopy]_vars

(***************************************************************************)
(* The compound assignments a OP= b (b a vector or the ResultPacker of its *)
(* members) and a OP= scl (scl the first member of b), through the direct  *)
(* and through the fallback overload.  Which of the two a call selects is  *)
(* decided by overload resolution; here each body is run.  res keeps the   *)
(* object the operator was called on as it was before the call.            *)
(***************************************************************************)
InitCompound ==
    /\ ty \in VecTypes
    /\ \E u \in IntVecs(EucD(ty), MaxWrite), v \in IntVecs(EucD(ty), MaxWrite) :
          /\ a = Vec(ty, u)
          /\ b = Vec(ty, v)
    /\ res = NoResult
    /\ view = NoView

PlusAssign ==
    /\ WithinWrite(Elems(ty, a))
    /\ \E o \in {"direct", "fallback"}, k \in {"const&", "&&", "pack"} :
          LET r == IF k = "pack" THEN PackElems(EucD(ty), Packer(ty, b))
                   ELSE Elems(ty, b)
          IN  /\ a' = IF o = "direct" THEN compound_assign(ty, "+=", a, r)
                      ELSE compound_assign_fallback(ty, "+=", a, r)
              /\ res' = [op |-> "+=", overload |-> o, arg |-> k, self |-> a]
    /\ UNCHANGED <<ty, b, view>>

MinusAssign ==
    /\ WithinWrite(Elems(ty, a))
    /\ \E o \in {"direct", "fallback"}, k \in {"const&", "&&", "pack"} :
          LET r == IF k = "pack" THEN PackElems(EucD(ty), Packer(ty, b))
                   ELSE Elems(ty, b)
          IN  /\ a' = IF o = "direct" THEN compound_assign(ty, "-=", a, r)
                      ELSE compound_assign_fallback(ty, "-=", a, r)
              /\ res' = [op |-> "-=", overload |-> o, arg |-> k, self |-> a]
    /\ UNCHANGED <<ty, b, view>>

MulAssign ==
    /\ WithinWrite(Elems(ty, a))
    /\ \E o \in {"direct", "fallback"} :
          LET r == [i \in 1..EucD(ty) |-> x(ty, b)]
          IN  /\ a' = IF o = "direct" THEN compound_assign(ty, "*=", a, r)
                      ELSE compound_assign_fallback(ty, "*=", a, r)
              /\ res' = [op |-> "*=", overload |-> o, arg |-> "scalar", self |-> a]
    /\ UNCHANGED <<ty, b, view>>

DivAssign ==
    /\ WithinWrite(Elems(ty, a))
    /\ \E o \in {"direct", "fallback"} :
          LET r == [i \in 1..EucD(ty) |-> x(ty, b)]
          IN  /\ a' = IF o = "direct" THEN compound_assign(ty, "/=", a, r)
                      ELSE compound_assign_fallback(ty, "/=", a, r)
              /\ res' = [op |-> "/=", overload |-> o, arg |-> "scalar", self |-> a]
    /\ UNCHANGED <<ty, b, view>>

NextCompound ==
    \/ PlusAssign
    \/ MinusAssign
    \/ MulAssign
    \/ DivAssign

SpecCompound == InitCompound /\ [][NextCompound]_vars

(***************************************************************************)
(* A call a OP= rhs on vectors of an ElemType: the overloads that overload *)
(* resolution finds viable.                                                *)
(***************************************************************************)
InitResolve ==
    /\ ty \in VecTypes
    /\ a = DefaultCtor(ty)
    /\ b = DefaultCtor(ty)
    /\ res = NoResult
    /\ view = NoView

Resolve ==
    /\ \E op \in CompoundOps, elem \in ElemTypes :
          res' = [op |-> op, elem |-> elem, viable |-> viable(ty, op, elem)]
    /\ UNCHANGED <<ty, a, b, view>>

SpecResolve == InitResolve /\ [][Resolve]_vars

(***************************************************************************)
(* Scaling: a and the ResultPacker of a's members, multiplied and divided  *)
(* by a scalar.                                                            *)
(***************************************************************************)
Mul ==
    /\ \E scl \in (-MaxSum)..MaxSum :
          res' = [op |-> "v * scl", scl |-> scl, val |-> operator_mul(ty, a, Num(scl))]
    /\ UNCHANGED <<ty, a, b, view>>

MulLeft ==
    /\ \E scl \in (-MaxSum)..MaxSum :
          res' = [op |-> "scl * v", scl |-> scl, val |-> operator_mul_left(ty, Num(scl), a)]
    /\ UNCHANGED <<ty, a, b, view>>

Div ==
    /\ \E scl \in (-MaxSum)..MaxSum :
          res' = [op |-> "v / scl", scl |-> scl, val |-> operator_div(ty, a, Num(scl))]
    /\ UNCHANGED <<ty, a, b, view>>

PackMul ==
    /\ \E scl \in (-MaxSum)..MaxSum :
          res' = [op |-> "pack * scl", scl |-> scl, val |-> pack_operator_mul(EucD(ty), Packer(ty, a), Num(scl))]
    /\ UNCHANGED <<ty, a, b, view>>

PackMulLeft ==
    /\ \E scl \in (-MaxSum)..MaxSum :
          res' = [op |-> "scl * pack", scl |-> scl, val |-> pack_operator_mul_left(EucD(ty), Num(scl), Packer(ty, a))]
    /\ UNCHANGED <<ty, a, b, view>>

PackDiv ==
    /\ \E scl \in (-MaxSum)..MaxSum :
          res' = [op |-> "pack / scl", scl |-> scl, val |-> pack_operator_div(EucD(ty), Packer(ty, a), Num(scl))]
    /\ UNCHANGED <<ty, a, b, view>>

NextScale ==
    \/ Mul
    \/ MulLeft
    \/ Div
    \/ PackMul
    \/ PackMulLeft
    \/ PackDiv

SpecScale == InitNorm /\ [][NextScale]_vars

(***************************************************************************)
(* The mutators without argument, applied to a; res keeps the object the   *)
(* call found.  A call that does not compile leaves a alone.               *)
(***************************************************************************)
NormalizeSelf ==
    /\ res' = [op |-> "normalize_self", self |-> a, val |-> normalize_self(ty, a)]
    /\ a' = IF normalize_self(ty, a) = IllFormed THEN a ELSE normalize_self(ty, a)
    /\ UNCHANGED <<ty, b, view>>

NextSelf ==
    \/ Normalize
    \/ NormalizeSelf
    \/ ZeroSelf
    \/ Set

SpecSelf == InitNorm /\ [][NextSelf]_vars

(***************************************************************************)
(* dot between an object a of ElemType E and an object b of ElemType T.    *)
(* a holds integers, b holds halves of integers; an object of integral     *)
(* element type holds integers only.                                       *)
(***************************************************************************)
InitMixed ==
    /\ ty \in VecTypes
    /\ \E u \in Inputs(EucD(ty)), v \in Inputs(EucD(ty)) :
          /\ a = Vec(ty, u)
          /\ b = set(ty, DefaultCtor(ty), [i \in 1..Len(v) |-> Canon(v[i], 2, 1)])
    /\ res = NoResult
    /\ view = NoView

DotElem ==
    /\ \E E \in Arithmetic, T \in Arithmetic :
          /\ \A i \in 1..EucD(ty) : Convert(E, Elems(ty, a)[i]) = Elems(ty, a)[i]
          /\ \A i \in 1..EucD(ty) : Convert(T, Elems(ty, b)[i]) = Elems(ty, b)[i]
          /\ res' = [op |-> "dot<E,T>", E |-> E, T |-> T, val |-> dot_elem(E, ty, a, b)]
    /\ UNCHANGED <<ty, a, b, view>>

SpecMixed == InitMixed /\ [][DotElem]_vars

(***************************************************************************)
(* The const operations without argument, applied to a.                    *)
(***************************************************************************)
\* p = a.get_pack()
GetPack ==
    /\ ty # V1
    /\ res' = [op |-> "get_pack", val |-> get_pack(ty, a)]
    /\ UNCHANGED <<ty, a, b, view>>

\* p = a.<sel>() for a swizzle that returns by value.  The calls are const
\* and their results do not depend on one another nor on the operations
\* called before: the swizzles are taken on the vector as it was made.
SwizzleValue ==
    /\ ty # V1
    /\ res = NoResult
    /\ \E sel \in Swizzles(ty) \ RefSwizzles(ty) :
          res' = [op |-> "swizzle", sel |-> sel, val |-> swizzle(ty, "a", sel)]
    /\ UNCHANGED <<ty, a, b, view>>

\* p = -a, and a + p
UnaryMinus ==
    /\ res' = [op |-> "operator-()", val |-> operator_neg(ty, a),
               sum |-> operator_plus_pack(ty, a, operator_neg(ty, a))]
    /\ UNCHANGED <<ty, a, b, view>>

\* r = +a
UnaryPlus ==
    /\ res' = [op |-> "operator+()", val |-> operator_plus_unary(ty, "a")]
    /\ UNCHANGED <<ty, a, b, view>>

Dimension ==
    /\ res' = [op |-> "dimension", val |-> dimension(ty)]
    /\ UNCHANGED <<ty, a, b, view>>

NextUnary ==
    \/ GetPack
    \/ SwizzleValue
    \/ UnaryMinus
    \/ UnaryPlus
    \/ Dimension

SpecUnary == InitNorm /\ [][NextUnary]_vars

(***************************************************************************)
(* The binary operations between a and b, each taken as a vector or as     *)
(* the ResultPacker of its members.                                        *)
(***************************************************************************)
\* a - b; the overloads taking an rvalue vector have the bodies of those
\* taking a const reference (operator- 1202, 1796, 2518, 3917, 4510, 5233, 645)
Minus ==
    /\ \E k \in {"v - v", "v - v&&", "v - pack", "pack - v", "pack - v&&"} :
          /\ res' = [op |-> "operator-", kind |-> k,
                     val |-> CASE k \in {"v - v", "v - v&&"} -> operator_minus(ty, a, b)
                               [] k = "v - pack" ->
                                      operator_minus_pack(ty, a, Packer(ty, b))
                               [] OTHER -> operator_minus_left(ty, Packer(ty, a), b)]
          /\ b' = IF k \in {"v - v&&", "pack - v&&"} THEN MovedFrom(ty, b) ELSE b
    /\ UNCHANGED <<ty, a, view>>

\* a == b and a != b.  The overloads of a vector type return bool (their
\* return type goes through meta::no_ref) and compare member with member,
\* whether the other operand is a vector (x_ with right.x_) or a
\* ResultPacker (x_ with right.x, the value of the member the pack was made
\* from); those between two ResultPackers return bool&&, a reference to a
\* temporary that is gone when the caller reads it: the value read is any
\* bool (or the read faults).
\* (operator== 1258-1288, 1852-1882, ...; operator!= 1293-1357, ...;
\*  ResultPacker_n 305-323, 369-387, 433-451, 497-515)
Compare ==
    /\ \E o \in {"==", "!=", "!= fallback"},
          k \in {"v, v", "v, v&&", "v, pack", "pack, v", "pack, v&&", "pack, pack"},
          read \in BOOLEAN :
          LET n    == EucD(ty)
              pack == IF o = "==" THEN pack_operator_eq(n, Packer(ty, a), Packer(ty, b))
                                  ELSE pack_operator_ne(n, Packer(ty, a), Packer(ty, b))
              vec  == CASE o = "==" -> operator_eq(ty, a, b)
                        [] o = "!=" -> operator_ne(ty, a, b)
                        [] OTHER    -> operator_ne_fallback(ty, a, b)
          IN  /\ res' = IF k = "pack, pack"
                        THEN [op |-> o, kind |-> k, dangling |-> pack.type = "bool&&",
                              val |-> IF pack.type = "bool&&" THEN read ELSE pack.val]
                        ELSE [op |-> o, kind |-> k, dangling |-> FALSE, val |-> vec]
              /\ b' = IF k \in {"v, v&&", "pack, v&&"} THEN MovedFrom(ty, b) ELSE b
    /\ UNCHANGED <<ty, a, view>>

NextBinary ==
    \/ Minus

SpecBinary == Init /\ [][NextBinary]_vars

SpecCompare == Init /\ [][Compare]_vars

(***************************************************************************)
(* A vector made from a ResultPacker: u(a + b), u = a + b with u a copy of *)
(* b before, and u(a.get_pack()); res.val is u.                            *)
(***************************************************************************)
FromPack ==
    /\ \E k \in {"u(a + b)", "u = a + b"} \cup
                 (IF ty = V1 THEN {} ELSE {"u(a.get_pack())"}) :
          res' = [op |-> "from pack", kind |-> k,
                  val |-> CASE k = "u(a + b)" -> ctor_pack(ty, operator_plus(ty, a, b))
                            [] k = "u = a + b" ->
                                   operator_assign_pack(ty, b, operator_plus(ty, a, b))
                            [] OTHER -> ctor_pack(ty, get_pack(ty, a))]
    /\ UNCHANGED <<ty, a, b, view>>

SpecPack == Init /\ [][FromPack]_vars

(***************************************************************************)
(* Every operation that is declared const, or returns *this or a constant  *)
(* (the non-const operator+() and dimension()), on a and on the other      *)
(* operand b.                                                              *)
(***************************************************************************)
InitConst ==
    /\ ty \in VecTypes
    /\ \E u \in IntVecs(EucD(ty), MaxWrite) : a = Vec(ty, u)
    /\ \E k \in 1..MaxWrite : b = Vec(ty, [i \in 1..EucD(ty) |-> k])
    /\ res = NoResult
    /\ view = NoView

NextConst ==
    \/ Plus
    \/ PlusRvalue
    \/ PlusPack
    \/ Minus
    \/ Mul
    \/ MulLeft
    \/ Div
    \/ Compare
    \/ UnaryPlus
    \/ UnaryMinus
    \/ Dot
    \/ DotRvalue
    \/ DotPack
    \/ Cross
    \/ CrossRvalue
    \/ CrossPack
    \/ EucnormSquared
    \/ Eucnorm
    \/ Normalize
    \/ Dimension
    \/ GetPack
    \/ SwizzleValue

SpecConst == InitConst /\ [][NextConst]_vars

(***************************************************************************)
(* Properties.                                                             *)
(***************************************************************************)
\* the component-wise combination of two tuples
Zip(Op(_, _), l, r) == [i \in 1..Len(l) |-> Op(l[i], r[i])]

IsVec(t, self, v) == Elems(t, self) = Nums(v)

\* C1: a + b is the component-wise sum for every vector type, and
\* (1,2,3) + (4,5,6) = (5,7,9).
C1_AddComponentwise ==
    res.op \in {"operator+(const&)", "operator+(&&)"} =>
        /\ PackElems(EucD(ty), res.val) = Zip(RAdd, Elems(ty, a), Elems(ty, b))
        /\ (IsVec(ty, a, <<1, 2, 3>>) /\ IsVec(ty, b, <<4, 5, 6>>)) =>
              res.val = [x |-> Num(5), y |-> Num(7), z |-> Num(9)]

C1_Witness ==
    /\ res.op = "operator+(const&)"
    /\ ty = Rec3
    /\ IsVec(ty, a, <<1, 2, 3>>)
    /\ IsVec(ty, b, <<4, 5, 6>>)
    /\ res.val = [x |-> Num(5), y |-> Num(7), z |-> Num(9)]

\* l[1]*r[1] + ... + l[n]*r[n]
SumOfProducts(l, r) ==
    LET S[i \in 0..Len(l)] ==
            IF i = 0 THEN Num(0) ELSE RAdd(S[i - 1], RMul(l[i], r[i]))
    IN  S[Len(l)]

\* the vector a ResultPacker becomes when it is assigned to an object
AsVector(t, pack) == operator_assign_pack(t, DefaultCtor(t), pack)

NonZero(t, self) == \E i \in 1..EucD(t) : ~IsZero(Elems(t, self)[i])

NegPack(pack) == [x |-> RNeg(pack.x), y |-> RNeg(pack.y), z |-> RNeg(pack.z)]

\* C2: a.dot(b) is the sum of a[i]*b[i] for each of the three dot overloads
\* (const-ref vector, rvalue vector, rvalue ResultPack) of every vector type.
C2_DotIsSumOfProducts ==
    res.op \in {"dot(const&)", "dot(&&)", "dot(pack)"} =>
        res.val = SumOfProducts(Elems(ty, a), Elems(ty, b))

\* C3: eucnorm_squared() equals dot(a, a) for every vector type and dimension.
C3_NormSquaredIsSelfDot ==
    res.op = "eucnorm_squared" =>
        /\ res.val # IllFormed
        /\ res.val = dot(ty, a, a)

\* C4: for dimension >= 2, eucnorm() equals sqrt(eucnorm_squared()), and the
\* 2-D vector (3,4) has eucnorm 5.
C4_NormIsSqrtOfNormSquared ==
    (res.op = "eucnorm" /\ EucD(ty) >= 2) =>
        /\ res.val # IllFormed
        /\ res.val = RSqrt(eucnorm_squared(ty, a))
        /\ IsVec(ty, a, <<3, 4>>) => res.val = Num(5)

C6_CrossOrthogonal ==
    res.op \in {"cross(const&)", "cross(&&)", "cross(pack)"} =>
        LET c == AsVector(ty, res.val)
        IN  /\ dot(ty, c, a) = Num(0)
            /\ dot(ty, c, b) = Num(0)

C6_Witness ==
    /\ res.op = "cross(const&)"
    /\ ty = Rec3
    /\ IsVec(ty, a, <<1, 2, 3>>)
    /\ IsVec(ty, b, <<4, 5, 6>>)
    /\ IsVec(ty, AsVector(ty, res.val), <<-3, 6, -3>>)
    /\ dot(ty, AsVector(ty, res.val), a) = Num(0)

\* C7: the cross product is anti-commutative: a.cross(b) equals the
\* component-wise negation of b.cross(a).
C7_CrossAnticommutative ==
    /\ res.op = "cross(const&)" => res.val = NegPack(cross(ty, b, a))
    /\ res.op = "cross(&&)" => res.val = NegPack(cross_rvalue(ty, b, a))
    /\ res.op = "cross(pack)" => res.val = NegPack(cross_pack(ty, b, Packer(ty, a)))

C7_Witness ==
    /\ res.op = "cross(const&)"
    /\ ty = Cmpl3
    /\ IsVec(ty, a, <<1, 2, 3>>)
    /\ IsVec(ty, b, <<4, 5, 6>>)
    /\ res.val = [x |-> Num(-3), y |-> Num(6), z |-> Num(-3)]
    /\ cross(ty, b, a) = [x |-> Num(3), y |-> Num(-6), z |-> Num(3)]

\* C8: each of the three cross overloads returns
\* (a.y*b.z - a.z*b.y, a.z*b.x - a.x*b.z, a.x*b.y - a.y*b.x), and
\* (1,0,0) x (0,1,0) = (0,0,1).
C8_CrossFormula ==
    res.op \in {"cross(const&)", "cross(&&)", "cross(pack)"} =>
        LET l == Elems(ty, a)
            r == Elems(ty, b)
        IN  /\ PackElems(3, res.val) =
                  << RSub(RMul(l[2], r[3]), RMul(l[3], r[2])),
                     RSub(RMul(l[3], r[1]), RMul(l[1], r[3])),
                     RSub(RMul(l[1], r[2]), RMul(l[2], r[1])) >>
            /\ (IsVec(ty, a, <<1, 0, 0>>) /\ IsVec(ty, b, <<0, 1, 0>>)) =>
                  res.val = [x |-> Num(0), y |-> Num(0), z |-> Num(1)]

C8_Witness ==
    /\ res.op = "cross(pack)"
    /\ ty = Rec3
    /\ IsVec(ty, a, <<1, 0, 0>>)
    /\ IsVec(ty, b, <<0, 1, 0>>)
    /\ res.val = [x |-> Num(0), y |-> Num(0), z |-> Num(1)]

\* C9: for every non-zero a of any vector type and dimension, a.normalize()
\* taken as a vector has eucnorm() equal to 1.
C9_NormalizeHasUnitNorm ==
    (res.op = "normalize" /\ NonZero(ty, a)) =>
        /\ res.val # IllFormed
        /\ eucnorm(ty, AsVector(ty, res.val)) = Num(1)

\* C10: in the Rec family v.xy() (3-D, 4-D) and v.xyz() (4-D) return a
\* reference aliasing v's storage: after any sequence of mutations through v
\* or through the view, v.x() = view.x() and v.y() = view.y(), and
\* v.z() = view.z() for xyz().
C10_ViewAliasesStorage ==
    view # NoView =>
        /\ x(view.type, Viewed) = x(ty, a)
        /\ y(view.type, Viewed) = y(ty, a)
        /\ view.type = Rec3 => z(view.type, Viewed) = z(ty, a)

C10_Witness ==
    /\ ty = Rec4
    /\ view # NoView
    /\ view.type = Rec3
    /\ res.op = "view.set"
    /\ IsVec(ty, a, <<1, 0, 0, 1>>)
    /\ x(view.type, Viewed) = Num(1)

\* C11: in the Cmpl family every swizzle, xy() and xyz() included, returns
\* its ResultPacker by value (checked for every declared swizzle on every a
\* before the first one is taken): a write to an element of a or
\* zero_self() on a afterwards leaves the ResultPacker p as it was, and a
\* write to a member of p leaves a as it was.
C11_SwizzleIsIndependentCopy ==
    /\ [](view = NoView =>
            \A sel \in Swizzles(ty) :
                LET p == swizzle(ty, "a", sel)
                IN  p.ref = "temporary" /\ p.val = Select(ty, a, sel))
    /\ [][/\ (view # NoView /\ res'.op \in {"write", "zero_self"}) => Seen' = Seen
          /\ res'.op = "pack.write" => a' = a]_vars

\* a was zeroed after p had been taken, and p still holds a non-zero member
C11_Witness ==
    /\ view # NoView
    /\ res.op = "zero_self"
    /\ a = DefaultCtor(ty)
    /\ Seen.x # Num(0)

C13_ExactlyOneOverload ==
    res # NoResult =>
        res.viable = IF res.op \in res.elem THEN {"direct"} ELSE {"fallback"}

\* C14: v / scl and pack / scl are component-wise: the i-th member of the
\* result is the i-th member of the operand divided by scl, for vectors and
\* ResultPackers of every degree 1..4.
C14_DivComponentwise ==
    res.op \in {"v / scl", "pack / scl"} =>
        res.val = PackOfSeq([i \in 1..EucD(ty) |->
                               RDiv(Elems(ty, a)[i], Num(res.scl))])

\* C15: scl * v and v * scl return the same ResultPacker, whose i-th member
\* is v_i * scl, for vectors and for ResultPackers of every degree.
C15_ScalarMulCommutes ==
    LET scaled(scl) == PackOfSeq([i \in 1..EucD(ty) |->
                                    RMul(Elems(ty, a)[i], Num(scl))])
    IN  /\ res.op \in {"v * scl", "scl * v", "pack * scl", "scl * pack"} =>
               res.val = scaled(res.scl)
        /\ \A scl \in (-MaxSum)..MaxSum :
               /\ operator_mul_left(ty, Num(scl), a) = operator_mul(ty, a, Num(scl))
               /\ pack_operator_mul_left(EucD(ty), Num(scl), Packer(ty, a))
                      = pack_operator_mul(EucD(ty), Packer(ty, a), Num(scl))

\* scl * v has been evaluated with scl = 2 on a vector whose last member is 1
C15_Witness ==
    /\ res.op = "scl * v"
    /\ res.scl = 2
    /\ Elems(ty, a)[EucD(ty)] = Num(1)
    /\ PackElems(EucD(ty), res.val)[EucD(ty)] = Num(2)

\* C16: a Rec vector and the Cmpl vector of the same dimension holding the
\* same members answer every query alike and are left alike by every
\* mutator: the result of eucnorm_squared, eucnorm or normalize just
\* evaluated is the one the other family returns, and so are + - * / dot,
\* cross, get_pack, the by-value swizzles, zero_self and the compound
\* assignments.
C16_FamiliesAgree ==
    LET other == CASE ty = Rec2 -> Cmpl2
                   [] ty = Rec3 -> Cmpl3
                   [] ty = Rec4 -> Cmpl4
                   [] ty = Cmpl2 -> Rec2
                   [] ty = Cmpl3 -> Rec3
                   [] ty = Cmpl4 -> Rec4
                   [] OTHER -> ty
        scl == x(ty, a)
        r == Elems(ty, a)
    IN  /\ res.op = "eucnorm_squared" => res.val = eucnorm_squared(other, a)
        /\ res.op = "eucnorm" => res.val = eucnorm(other, a)
        /\ res.op = "normalize" => res.val = normalize(other, a)
        /\ operator_plus(ty, a, a) = operator_plus(other, a, a)
        /\ operator_minus(ty, a, a) = operator_minus(other, a, a)
        /\ operator_mul(ty, a, scl) = operator_mul(other, a, scl)
        /\ operator_div(ty, a, scl) = operator_div(other, a, scl)
        /\ dot(ty, a, a) = dot(other, a, a)
        /\ dot_rvalue(ty, a, a) = dot_rvalue(other, a, a)
        /\ dot_pack(ty, a, Packer(ty, a)) = dot_pack(other, a, Packer(other, a))
        /\ EucD(ty) = 3 => cross(ty, a, a) = cross(other, a, a)
        /\ Packer(ty, a) = Packer(other, a)
        /\ ty # V1 =>
               \A sel \in Swizzles(ty) \ (RefSwizzles(ty) \cup RefSwizzles(other)) :
                   swizzle(ty, "a", sel) = swizzle(other, "a", sel)
        /\ zero_self(ty, a) = zero_self(other, a)
        /\ \A op \in CompoundOps :
               /\ compound_assign(ty, op, a, r) = compound_assign(other, op, a, r)
               /\ compound_assign_fallback(ty, op, a, r)
                      = compound_assign_fallback(other, op, a, r)

\* C17: for every vector type and every v with non-zero norm, normalize_self()
\* leaves v with exactly the components v.normalize() returns for the object
\* before the call: each component divided by the eucnorm() of that object.
C17_NormalizeSelfIsNormalize ==
    (res.op = "normalize_self" /\ NonZero(ty, res.self)) =>
        /\ res.val # IllFormed
        /\ normalize(ty, res.self) # IllFormed
        /\ Elems(ty, a) = PackElems(EucD(ty), normalize(ty, res.self))
        /\ \A i \in 1..EucD(ty) :
              Elems(ty, a)[i] = RDiv(Elems(ty, res.self)[i], eucnorm(ty, res.self))

\* C18: normalize() and normalize_self() make no zero-norm check.  Wherever
\* the call compiles, on a vector whose eucnorm() is 0 every component is
\* divided by 0: the result holds the element type's quotient by zero (for a
\* floating type 0/0, not a number), never the components as they were.
C18_NoZeroNormCheck ==
    /\ (res.op = "normalize" /\ res.val # IllFormed /\ IsZero(eucnorm(ty, a))) =>
          \A i \in 1..EucD(ty) :
              /\ PackElems(EucD(ty), res.val)[i] = RDiv(Elems(ty, a)[i], Num(0))
              /\ PackElems(EucD(ty), res.val)[i] # Elems(ty, a)[i]
    /\ (res.op = "normalize_self" /\ res.val # IllFormed
            /\ IsZero(eucnorm(ty, res.self))) =>
          \A i \in 1..EucD(ty) :
              /\ Elems(ty, a)[i] = RDiv(Elems(ty, res.self)[i], Num(0))
              /\ Elems(ty, a)[i] # Elems(ty, res.self)[i]

\* the zero vector of three dimensions, normalised in place, holds no number
C18_Witness ==
    /\ ty = Rec3
    /\ res.op = "normalize_self"
    /\ IsVec(ty, res.self, <<0, 0, 0>>)
    /\ a.x_ = NaN /\ a.y_ = NaN /\ a.z_ = NaN

\* C19: for every vector type and dimension, after zero_self() every
\* component of the vector is 0 whatever it held before, so that the vector
\* compares equal to a vector set to zeros and its eucnorm_squared() is 0.
C19_ZeroSelfZeroes ==
    res.op = "zero_self" =>
        /\ \A i \in 1..EucD(ty) : Elems(ty, a)[i] = Num(0)
        /\ operator_eq(ty, a, Vec(ty, [i \in 1..EucD(ty) |-> 0]))
        /\ eucnorm_squared(ty, a) = Num(0)

\* C20: dot is the plain left-to-right sum of the element-wise products,
\* with no conversion of the single products, alike in both families: for
\* operands holding the same values, also when their element types differ,
\* the Rec-family dot and the Cmpl-family dot return the same value.
C20_DotIsPlainSumInBothFamilies ==
    res.op = "dot<E,T>" =>
        LET other == CASE ty = Rec2 -> Cmpl2
                       [] ty = Rec3 -> Cmpl3
                       [] ty = Rec4 -> Cmpl4
                       [] ty = Cmpl2 -> Rec2
                       [] ty = Cmpl3 -> Rec3
                       [] ty = Cmpl4 -> Rec4
                       [] OTHER -> ty
        IN  /\ res.val = SumOfProducts(Elems(ty, a), Elems(ty, b))
            /\ res.val = dot_elem(res.E, other, a, b)

\* C21: every swizzle that returns by value returns a ResultPacker whose k-th
\* component is the component of the vector that the k-th letter of the
\* swizzle's name names (wzyx() = (w, z, y, x)), for every such swizzle of
\* the 2-D, 3-D and 4-D classes of both families; get_pack() returns the
\* components in storage order.
C21_SwizzleFollowsItsName ==
    LET Named(m) == CASE m = "x" -> x(ty, a)
                      [] m = "y" -> y(ty, a)
                      [] m = "z" -> z(ty, a)
                      [] m = "w" -> w(ty, a)
    IN  /\ res.op = "swizzle" =>
              /\ res.val.ref = "temporary"
              /\ res.val.type = SubPacker(Len(res.sel))
              /\ PackElems(Len(res.sel), res.val.val)
                     = [k \in 1..Len(res.sel) |-> Named(res.sel[k])]
        /\ res.op = "get_pack" =>
              PackElems(EucD(ty), res.val)
                 = [k \in 1..EucD(ty) |-> Named(Letters[k])]

\* wzyx() of the four-dimensional (1, -1, 0, 0): (0, 0, -1, 1)
C21_Witness ==
    /\ ty \in {Rec4, Cmpl4}
    /\ res.op = "swizzle"
    /\ res.sel = <<"w", "z", "y", "x">>
    /\ IsVec(ty, a, <<1, -1, 0, 0>>)
    /\ res.val.val = [x |-> Num(0), y |-> Num(0), z |-> Num(-1), w |-> Num(1)]

\* C22: subtraction is component-wise and keeps the order of its operands
\* for every combination of operand kinds: vector - vector, vector -
\* ResultPack and ResultPack - vector return a ResultPack whose i-th
\* component is left_i - right_i, never right_i - left_i.
C22_MinusKeepsOperandOrder ==
    res.op = "operator-" =>
        PackElems(EucD(ty), res.val) = Zip(RSub, Elems(ty, a), Elems(ty, b))

\* (1, 2, 3) - (4, 5, 6) with the left operand a ResultPack: (-3, -3, -3)
C22_Witness ==
    /\ res.op = "operator-"
    /\ res.kind = "pack - v"
    /\ IsVec(ty, a, <<1, 2, 3>>)
    /\ IsVec(ty, b, <<4, 5, 6>>)
    /\ res.val = [x |-> Num(-3), y |-> Num(-3), z |-> Num(-3)]

\* C23: for every vector type, set(in1, ..., inN) assigns the k-th argument
\* to the k-th component (x = in1, y = in2, z = in3, w = in4): after the call
\* every component equals its argument, whatever the object held before.
C23_SetAssignsInOrder ==
    res.op = "set" =>
        /\ x(ty, a) = Num(res.args[1])
        /\ EucD(ty) >= 2 => y(ty, a) = Num(res.args[2])
        /\ EucD(ty) >= 3 => z(ty, a) = Num(res.args[3])
        /\ EucD(ty) >= 4 => w(ty, a) = Num(res.args[4])

\* set(1, 0, -1, 0) on a four-dimensional object
C23_Witness ==
    /\ ty \in {Rec4, Cmpl4}
    /\ res.op = "set"
    /\ res.args = <<1, 0, -1, 0>>
    /\ IsVec(ty, a, <<1, 0, -1, 0>>)

\* the operands a and b have the same components
SameComponents == Elems(ty, a) = Elems(ty, b)

\* C24: for every combination of operand kinds (vector or ResultPack on each
\* side), a == b is a bool that is true exactly when all the components are
\* equal, and a != b is its negation, on the direct != and on the one built
\* from !(==).
C24_EqualityOnEveryOperandKind ==
    res.op \in {"==", "!=", "!= fallback"} =>
        /\ ~res.dangling
        /\ res.val = IF res.op = "==" THEN SameComponents ELSE ~SameComponents

\* what holds: the same for every combination with a vector on one side
C24_EqualityWithAVectorOperand ==
    (res.op \in {"==", "!=", "!= fallback"} /\ res.kind # "pack, pack") =>
        /\ ~res.dangling
        /\ res.val = IF res.op = "==" THEN SameComponents ELSE ~SameComponents

\* C25: a vector constructed from a ResultPack, or assigned one with
\* operator=, holds the pack's components in order, in every family and
\* dimension: V(v.get_pack()) equals v, and after u = a + b every u_i is
\* a_i + b_i.
C25_FromPackKeepsComponents ==
    res.op = "from pack" =>
        /\ res.val # IllFormed
        /\ Elems(ty, res.val) = IF res.kind = "u(a.get_pack())"
                                THEN Elems(ty, a)
                                ELSE Zip(RAdd, Elems(ty, a), Elems(ty, b))

\* what holds: the same wherever the call compiles
C25_FromPackWhereItCompiles ==
    (res.op = "from pack" /\ res.val # IllFormed) =>
        Elems(ty, res.val) = IF res.kind = "u(a.get_pack())"
                             THEN Elems(ty, a)
                             ELSE Zip(RAdd, Elems(ty, a), Elems(ty, b))

\* C26: normalize() keeps the direction of the vector: every component of
\* a.normalize() has the sign of the same component of a, for every vector
\* type and dimension, the one-dimensional vector included.
C26_NormalizeKeepsSigns ==
    (res.op = "normalize" /\ NonZero(ty, a)) =>
        /\ res.val # IllFormed
        /\ \A i \in 1..EucD(ty) :
              /\ IsFin(PackElems(EucD(ty), res.val)[i])
              /\ Sign(PackElems(EucD(ty), res.val)[i].n) = Sign(Elems(ty, a)[i].n)

\* what holds: the same for the types of dimension 2 to 4 whose normalize()
\* compiles
C26_NormalizeKeepsSignsFrom2D ==
    (res.op = "normalize" /\ NonZero(ty, a) /\ ty \notin {V1, Cmpl3}) =>
        /\ res.val # IllFormed
        /\ \A i \in 1..EucD(ty) :
              /\ IsFin(PackElems(EucD(ty), res.val)[i])
              /\ Sign(PackElems(EucD(ty), res.val)[i].n) = Sign(Elems(ty, a)[i].n)

\* the operations applied through the view
ViewOps ==
    {"view.set", "view.zero_self", "view.operator=(pack)", "view.compound",
     "view.normalize_self", "view.write"}

\* C27: an operation applied to a Rec3 or Rec4 vector through its prefix
\* view changes only the prefix: through xy() it leaves z (and w) as they
\* were, through xyz() it leaves w as it was.
C27_PrefixViewFrame ==
    res.op \in ViewOps =>
        /\ EucD(view.type) < EucD(ty)
        /\ Outside(view.type, a) = res.outside

\* a has been given a new x and y through xy() and holds the z it had
C27_Witness ==
    /\ ty = Rec3
    /\ view # NoView
    /\ view.type = Rec2
    /\ res.op = "view.compound"
    /\ IsVec(ty, a, <<-1, 0, 1>>)

\* C28: the non-mutating operations (+, -, *, /, ==, !=, unary + and -, dot,
\* cross, eucnorm_squared, eucnorm, normalize, dimension, get_pack and the
\* value swizzles) change no component of the vector they are called on nor
\* of the vector passed as the other operand.
C28_ConstOperationsLeaveOperands ==
    [][a' = a /\ b' = b]_vars

\* an rvalue overload has been evaluated on a and a non-zero b
C28_Witness ==
    /\ res.op = "cross(&&)"
    /\ IsVec(ty, a, <<1, 0, 0>>)
    /\ IsVec(ty, b, <<1, 1, 1>>)
    /\ PackElems(3, res.val) = Nums(<<0, -1, 1>>)

\* C29: v += o followed by v -= o, and v -= o followed by v += o, leave v
\* with the components it had before the first of the two, whichever of the
\* direct and fallback overloads runs and whether o is passed as a vector
\* or as a ResultPack.
C29_PlusMinusRoundTrip ==
    [][(\/ res # NoResult /\ res.op = "+=" /\ res'.op = "-="
        \/ res # NoResult /\ res.op = "-=" /\ res'.op = "+=")
       => a' = res.self]_vars

\* a fallback -= on a ResultPack has taken a non-zero o from every member
C29_Witness ==
    /\ res.op = "-="
    /\ res.overload = "fallback"
    /\ res.arg = "pack"
    /\ ty = Cmpl4
    /\ IsVec(ty, b, <<0, 0, 0, 1>>)
    /\ IsVec(ty, res.self, <<0, 0, 0, 1>>)
    /\ IsVec(ty, a, <<0, 0, 0, 0>>)

\* C30: -v is the ResultPack whose i-th component is v_i * -1, so that
\* v + (-v) has every component 0; +v is the vector itself, with the
\* components it has.
C30_UnaryMinusIsAdditiveInverse ==
    /\ res.op = "operator-()" =>
          /\ PackElems(EucD(ty), res.val) =
                [i \in 1..EucD(ty) |-> RMul(Elems(ty, a)[i], Num(-1))]
          /\ \A i \in 1..EucD(ty) : PackElems(EucD(ty), res.sum)[i] = Num(0)
    /\ res.op = "operator+()" =>
          /\ res.val = [type |-> ty, ref |-> "a"]
          /\ Elems(ty, Deref(res.val.ref)) = Elems(ty, a)

\* -(1, -1, 0, 0) is (-1, 1, 0, 0)
C30_Witness ==
    /\ res.op = "operator-()"
    /\ EucD(ty) = 4
    /\ IsVec(ty, a, <<1, -1, 0, 0>>)
    /\ PackElems(4, res.val) = Nums(<<-1, 1, 0, 0>>)

====
